---------------------------- MODULE Spec2Model ----------------------------
(***************************************************************************)
(* Model of the DSN block import driver of subspace-service               *)
(* (crates/subspace-service/src/dsn/import_blocks.rs,                      *)
(* import_blocks_from_dsn): segment iteration, semaphore-bounded piece     *)
(* retrieval with early exit, reconstruction, and the backpressure-aware   *)
(* submission of the reconstructed blocks to the import queue.             *)
(*                                                                         *)
(* Collaborators that live outside the listed sources (the piece provider  *)
(* with its validator, the erasure-code reconstructor, the archived        *)
(* history itself) are modelled from the specification text; the           *)
(* definitions concerned say so.                                           *)
(***************************************************************************)
EXTENDS Integers, Sequences, FiniteSets, TLC

(***************************************************************************)
(* Sizes.  The program's values (128 raw records, 2048 queued blocks) are  *)
(* scaled down; every property below is stated in terms of the names.      *)
(***************************************************************************)
\* RecordedHistorySegment::NUM_RAW_RECORDS, scaled down from 128.
NUM_RAW_RECORDS == 2

\* ArchivedHistorySegment::NUM_PIECES: source pieces plus as many parity pieces.
NUM_PIECES == 2 * NUM_RAW_RECORDS

\* QUEUED_BLOCKS_LIMIT, scaled down from 2048.
QUEUED_BLOCKS_LIMIT == 2

\* The largest number of segment headers the network advertises.
MaxSegments == 3

\* The highest best block the client is given: its chain has no end, the
\* runs are checked with the client at any block up to this one.
MaxBestNumber == 6

\* Option::None where a piece is expected (pieces are field elements, 0 and up).
None == 0 - 1

(***************************************************************************)
(* The archived history (modelled from the specification).                 *)
(* The history is one stream of symbols, the concatenation of the encoded  *)
(* blocks 0, 1, 2, ...; segment s holds the NUM_RAW_RECORDS symbols        *)
(* s * NUM_RAW_RECORDS .. (s + 1) * NUM_RAW_RECORDS - 1, one per source    *)
(* record.  A block that starts in one segment and ends in a later one is  *)
(* the "partial" last archived block of the former.                        *)
(***************************************************************************)

\* The block-length patterns the runs are checked over: block n is
\* pattern[n % Len(pattern) + 1] symbols long.
Layouts == { <<1, 1>>, <<2, 1>>, <<1, 2>>, <<3, 1>> }

BlockLen(layout, n) == layout[(n % Len(layout)) + 1]

\* The number of symbols in the advertised segments, which is more than
\* the number of any block in them.
MaxBlockNumber == MaxSegments * NUM_RAW_RECORDS

\* The longest block of any layout.
MaxBlockLen ==
    CHOOSE m \in 1..MaxBlockNumber :
        /\ \E l \in Layouts : \E i \in 1..Len(l) : l[i] = m
        /\ \A l \in Layouts : \A i \in 1..Len(l) : l[i] <= m

\* The stream positions the tables below cover: the advertised segments and
\* the rest of a block that starts in them.
StreamPositions == 0..(MaxBlockNumber + MaxBlockLen)

\* The stream position at which block n starts: the lengths of the blocks
\* before it, added up.
BlockStarts ==
    [layout \in Layouts |->
        LET start[n \in StreamPositions] ==
                IF n = 0 THEN 0 ELSE start[n - 1] + BlockLen(layout, n - 1)
        IN  start]

BlockStart(layout, n) == BlockStarts[layout][n]

BlockEnd(layout, n) == BlockStart(layout, n) + BlockLen(layout, n)

\* The block that symbol k of the stream belongs to.
BlockOfSymbol ==
    [layout \in Layouts |->
        [k \in StreamPositions |->
            CHOOSE n \in 0..k :
                BlockStart(layout, n) <= k /\ k < BlockEnd(layout, n)]]

BlockAt(layout, k) == BlockOfSymbol[layout][k]

SegmentStart(s) == s * NUM_RAW_RECORDS
SegmentEnd(s) == (s + 1) * NUM_RAW_RECORDS

\* The field the erasure code works in: the smallest prime above NUM_PIECES,
\* so that every piece position is a distinct evaluation point.
IsPrime(p) == p > 1 /\ \A d \in 2..(p - 1) : p % d # 0
FieldPrime ==
    CHOOSE p \in (NUM_PIECES + 1)..(2 * NUM_PIECES + 2) :
        IsPrime(p) /\ \A q \in (NUM_PIECES + 1)..(p - 1) : ~IsPrime(q)

\* Symbol k of the archived stream.
OriginalSymbol(layout, k) == (k * k + BlockAt(layout, k) + 1) % FieldPrime

\* The encoded bytes of block n as the chain (and the archiver) has them.
ChainBlockBytes(layout, n) ==
    [i \in 1..BlockLen(layout, n) |->
        OriginalSymbol(layout, BlockStart(layout, n) + i - 1)]

\* The blocks of the chain that the archived history can reach, by number.
ChainBlocks(layout) ==
    [n \in 0..MaxBlockNumber |->
        IF BlockEnd(layout, n) - 1 \in StreamPositions
        THEN ChainBlockBytes(layout, n) ELSE << >>]

\* A chain of the same shape in which every block has other bytes.
ForkedChain(layout) ==
    [n \in 0..MaxBlockNumber |->
        [i \in 1..Len(ChainBlocks(layout)[n]) |->
            (ChainBlocks(layout)[n][i] + 1) % FieldPrime]]

\* SegmentHeader::last_archived_block() of segment s: number and whether the
\* block is only partially archived in s.
SegmentHeaderOf(layout, s) ==
    LET last == BlockAt(layout, SegmentEnd(s) - 1)
    IN  [number  |-> last,
         partial |-> BlockEnd(layout, last) > SegmentEnd(s)]


(***************************************************************************)
(* The erasure code (modelled from the specification): a systematic code   *)
(* over GF(FieldPrime).  The NUM_RAW_RECORDS source records of a segment   *)
(* are the values at 0..NUM_RAW_RECORDS-1 of a polynomial of degree below  *)
(* NUM_RAW_RECORDS, the parity records its values at the remaining piece   *)
(* positions; any NUM_RAW_RECORDS values determine the polynomial.         *)
(***************************************************************************)
FieldInverse(a) == CHOOSE b \in 1..(FieldPrime - 1) : (a * b) % FieldPrime = 1

\* The product over the j in S of f[j], in the field (S within 0..NUM_PIECES-1).
FieldProduct(S, f) ==
    LET upto[k \in 0..NUM_PIECES] ==
            IF k = 0 THEN 1
            ELSE IF (k - 1) \in S
                 THEN (upto[k - 1] * f[k - 1]) % FieldPrime
                 ELSE upto[k - 1]
    IN  upto[NUM_PIECES]

\* The sum over the j in S of f[j], in the field.
FieldSum(S, f) ==
    LET upto[k \in 0..NUM_PIECES] ==
            IF k = 0 THEN 0
            ELSE IF (k - 1) \in S
                 THEN (upto[k - 1] + f[k - 1]) % FieldPrime
                 ELSE upto[k - 1]
    IN  upto[NUM_PIECES]

\* The value at x of the polynomial that takes the value v[i] at every i of X
\* (Lagrange interpolation).
Interpolate(X, v, x) ==
    FieldSum(X,
        [i \in X |->
            (v[i] * FieldProduct(X \ {i},
                [j \in X \ {i} |->
                    (((x - j) % FieldPrime)
                        * FieldInverse((i - j) % FieldPrime)) % FieldPrime]))
            % FieldPrime])

SourcePositions == 0..(NUM_RAW_RECORDS - 1)
PiecePositions == 0..(NUM_PIECES - 1)

\* The source record of segment s at source position i.
SourceRecord(layout, s, i) == OriginalSymbol(layout, SegmentStart(s) + i)

\* The pieces of every segment, as the archiver made them.
ArchivedSegments ==
    [layout \in Layouts |->
        [s \in 0..(MaxSegments - 1) |->
            [pos \in PiecePositions |->
                Interpolate(SourcePositions,
                    [i \in SourcePositions |-> SourceRecord(layout, s, i)],
                    pos)]]]

\* A piece that does not match the segment commitment, in place of piece.
CorruptPiece(piece) == (piece + 1) % FieldPrime


(***************************************************************************)
(* The reconstructor (subspace_archiving::reconstructor::Reconstructor,    *)
(* modelled from the specification).  Its state is the bytes of a block    *)
(* that began in the segments added so far and has not ended yet.          *)
(***************************************************************************)
FreshReconstructor == [partial |-> << >>]

PresentPositions(pieces) == {pos \in PiecePositions : pieces[pos] # None}

\* The n smallest elements of S (all of S when it has fewer).
SmallestOf(S, n) == {x \in S : Cardinality({y \in S : y < x}) < n}

\* The source records recovered from the pieces present (at least
\* NUM_RAW_RECORDS of them): source position -> symbol.
RecoverRecords(pieces) ==
    LET X == SmallestOf(PresentPositions(pieces), NUM_RAW_RECORDS)
    IN  [i \in SourcePositions |-> Interpolate(X, pieces, i)]

\* The recovered symbols of stream positions from..(to - 1) of segment s.
RecordSlice(records, s, from, to) ==
    [i \in 1..(to - from) |-> records[from + i - 1 - SegmentStart(s)]]

\* add_segment: the blocks that end in segment s, in order, with their bytes,
\* and the reconstructor's next state; an error when fewer than
\* NUM_RAW_RECORDS pieces are present.  A block that began before s is
\* returned only when the reconstructor holds its earlier bytes.
AddSegment(rec, layout, s, pieces) ==
    IF Cardinality(PresentPositions(pieces)) < NUM_RAW_RECORDS
    THEN [ok |-> FALSE, blocks |-> << >>, reconstructor |-> rec]
    ELSE
      LET records == RecoverRecords(pieces)
          first   == BlockAt(layout, SegmentStart(s))
          last    == BlockAt(layout, SegmentEnd(s) - 1)
          have    == SegmentStart(s) - BlockStart(layout, first)
          carried == have = 0 \/ Len(rec.partial) = have
          lo      == IF carried THEN first ELSE first + 1
          hi      == IF BlockEnd(layout, last) > SegmentEnd(s)
                     THEN last - 1 ELSE last
          Bytes(n) ==
              LET from == IF BlockStart(layout, n) < SegmentStart(s)
                          THEN SegmentStart(s) ELSE BlockStart(layout, n)
                  body == RecordSlice(records, s, from, BlockEnd(layout, n))
              IN  IF BlockStart(layout, n) < SegmentStart(s)
                  THEN rec.partial \o body ELSE body
          rest ==
              IF BlockEnd(layout, last) <= SegmentEnd(s) THEN << >>
              ELSE IF BlockStart(layout, last) >= SegmentStart(s)
                   THEN RecordSlice(records, s, BlockStart(layout, last),
                                    SegmentEnd(s))
                   ELSE IF carried
                        THEN rec.partial \o RecordSlice(records, s,
                                 SegmentStart(s), SegmentEnd(s))
                        ELSE << >>
      IN  [ok |-> TRUE,
           blocks |-> [i \in 1..(IF hi >= lo THEN hi - lo + 1 ELSE 0) |->
                          [number |-> lo + i - 1, bytes |-> Bytes(lo + i - 1)]],
           reconstructor |-> [partial |-> rest]]


(***************************************************************************)
(* The piece provider (subspace_networking PieceProvider::get_piece,       *)
(* modelled from the specification).  The network's answer to one request  *)
(* is one of NetworkOutcomes; with a validator attached a piece that does  *)
(* not verify against the segment commitment is reported as not found.     *)
(***************************************************************************)
NetworkOutcomes == {"valid", "invalid", "not_found", "error"}

get_piece(validator, outcome, archived_piece) ==
    CASE outcome = "valid" ->
            [ok |-> TRUE, piece |-> archived_piece]
      [] outcome = "invalid" ->
            [ok |-> TRUE,
             piece |-> IF validator = "None" THEN CorruptPiece(archived_piece)
                       ELSE None]
      [] outcome = "not_found" -> [ok |-> TRUE, piece |-> None]
      [] OTHER -> [ok |-> FALSE, piece |-> None]

(***************************************************************************)
(* ArchivalStorageInfo (subspace-farmer, utils/archival_storage_info.rs):  *)
(* the cuckoo filters the connected peers announced, by peer id, in a      *)
(* HashMap behind one Mutex shared by the clones of the structure.         *)
(***************************************************************************)

\* The most peers kept (50 in the source, scaled down here).
CONNECTED_PEERS_NUMBER_LIMIT == 2

\* The clones of one ArchivalStorageInfo that call into it concurrently.
NumClones == 2
Clones == 1..NumClones
NoClone == 0

\* Enough peers to go over the limit.
PeerIds == 1..(CONNECTED_PEERS_NUMBER_LIMIT + 1)
PieceIndexes == 0..2

\* A cuckoo filter keeps fingerprints of its items, and two piece indexes
\* may share one: membership is reported for every index whose fingerprint
\* is in a bucket.
Fingerprint(piece_index) == piece_index % 2

\* The filters peers announce: CuckooFilterDTO { values, length }.
CuckooFilterDTOs ==
    { [values |-> {0}, length |-> 1], [values |-> {0, 1}, length |-> 2] }

\* CuckooFilter::from(ExportedCuckooFilter { values, length })
CuckooFilterFrom(cuckoo_filter_dto) ==
    [buckets |-> cuckoo_filter_dto.values, len |-> cuckoo_filter_dto.length]

\* cuckoo_filter.contains(piece_index)
Contains(cuckoo_filter, piece_index) ==
    Fingerprint(piece_index) \in cuckoo_filter.buckets

\* The map is a function on the peer ids, NoFilter standing for no entry.
NoFilter == [buckets |-> {}, len |-> 0 - 1]
NoPeers == [peer_id \in PeerIds |-> NoFilter]
Tracked(peer_filters) == {peer_id \in PeerIds : peer_filters[peer_id] # NoFilter}

\* peer_filters.insert(peer_id, cuckoo_filter)
Insert(peer_filters, peer_id, cuckoo_filter) ==
    [peer_filters EXCEPT ![peer_id] = cuckoo_filter]

\* A HashMap iterates its keys in the order of the slots they occupy in its
\* table.  The slot of a key follows from its hash under the map's own
\* RandomState and from the slots taken when it is inserted, and an insert
\* may rehash the table: after an insert the keys of the map can be in any
\* order.  A remove leaves the other keys where they are.
KeyOrders(peer_filters) ==
    LET keys == Tracked(peer_filters)
    IN  {order \in [1..Cardinality(keys) -> keys] :
            \A i, j \in 1..Cardinality(keys) : order[i] = order[j] => i = j}

\* peer_filters.keys().cloned().collect::<Vec<_>>(), for a map that had its
\* keys in the order order before the keys no longer in it were removed.
Keys(peer_filters, order) ==
    SelectSeq(order, LAMBDA peer_id : peer_filters[peer_id] # NoFilter)

\* The seed of the generator: DefaultHasher::new() has fixed keys, so the
\* hash of a peer id is the same in every map and every process.
SeedFromPeerId(peer_id) == (peer_id * 40503) % 65536

\* StdRng::seed_from_u64(seed).gen_range(0..len): the first draw of a
\* generator is a function of its seed.
GenRange(seed, len) == seed % len

\* A map that is never cut back, and one allowed one peer more.
ExceedsLimit_never(len) == FALSE
ExceedsLimit_one_more(len) == len > CONNECTED_PEERS_NUMBER_LIMIT + 1
\* A map cut back as soon as it is at the limit.
ExceedsLimit_at_limit(len) == len >= CONNECTED_PEERS_NUMBER_LIMIT

\* peer_filters.len() > CONNECTED_PEERS_NUMBER_LIMIT
ExceedsLimit(len) == len > CONNECTED_PEERS_NUMBER_LIMIT

\* The peer the truncation removes: the key at the drawn index, or None when
\* the map is within the limit.
RemovingPeerId(peer_filters, order, peer_id) ==
    IF ExceedsLimit(Cardinality(Tracked(peer_filters)))
    THEN LET connected_peers == Keys(peer_filters, order)
             random_index ==
                 GenRange(SeedFromPeerId(peer_id), Len(connected_peers))
         IN  connected_peers[random_index + 1]
    ELSE None

\* The truncation after the insert.
Truncate(peer_filters, order, peer_id) ==
    LET removing_peer_id == RemovingPeerId(peer_filters, order, peer_id)
    IN  IF removing_peer_id = None THEN peer_filters
        ELSE [peer_filters EXCEPT ![removing_peer_id] = NoFilter]

\* update_cuckoo_filter run on its own from start to end, the insert
\* leaving the keys in the order order.
UpdateCuckooFilter(peer_filters, order, peer_id, cuckoo_filter_dto) ==
    Truncate(Insert(peer_filters, peer_id, CuckooFilterFrom(cuckoo_filter_dto)),
             order, peer_id)

\* A remove that reports the opposite.
RemoveReturn_is_none(peer_filters, peer_id) == peer_filters[peer_id] = NoFilter

\* self.peers.lock().remove(peer_id).is_some()
RemoveReturn(peer_filters, peer_id) == peer_filters[peer_id] # NoFilter
RemovePeerFilter(peer_filters, peer_id) ==
    [peer_filters EXCEPT ![peer_id] = NoFilter]

\* A scan that reports every peer of the map.
PeersContainPiece_every_peer(peer_filters, order, piece_index) ==
    Keys(peer_filters, order)

\* peers_contain_piece: the peers, in the map's order, whose filter reports
\* the piece.
PeersContainPiece(peer_filters, order, piece_index) ==
    SelectSeq(Keys(peer_filters, order),
              LAMBDA peer_id : Contains(peer_filters[peer_id], piece_index))

(***************************************************************************)
(* import_blocks_from_dsn: the state of one run.                           *)
(***************************************************************************)
VARIABLES
    layout,              \* input: the block layout of the archived history
    archived_segments,   \* input: how many segment headers the network has
    dsn_pieces,          \* input: the pieces the network holds, by segment
                         \* and position
    client_blocks,       \* input: the client's chain, number -> encoded block
    client_best,         \* client.info().best_number
    pc,                  \* where the run stands
    result,              \* "running", "Ok", an error or "Panic"
    segment_headers,     \* the downloaded headers (segment s at s + 1)
    headers_store,       \* what segment_headers_store holds
    segment_indices_iter,\* the next segment index the iterator yields
    segment_index,       \* the segment being processed
    reconstructor,       \* the Reconstructor instance
    semaphore,           \* permits available in the segment's Semaphore
    received_segment_pieces, \* the piece futures: position -> state
    segment_pieces,      \* position -> piece or None
    pieces_received,
    validation_failed,   \* a piece of this segment failed its validation
    get_piece_calls,     \* per position, the get_piece calls of this retrieval
    reconstructed_blocks,\* reconstructed_contents.blocks not yet iterated
    best_block_number,
    blocks_to_import,
    downloaded_blocks,
    import_calls,        \* the import_blocks calls made so far, in order
    slept                \* a sleep has completed since best_block_number was read

\* The state of an ArchivalStorageInfo and of the calls into it.
VARIABLES
    peers,               \* the HashMap: peer id -> cuckoo filter
    hash_order,          \* the map's keys in the order it iterates them
    lock,                \* the clone holding the Mutex, or NoClone
    updating,            \* per clone, its update_cuckoo_filter in progress
    last_call,           \* the call that returned last, with what it returned
    twin_peers,          \* the map of a second ArchivalStorageInfo
    twin_hash_order      \* and its keys in the order it iterates them

farmerVars == << peers, hash_order, lock, updating, last_call, twin_peers,
                 twin_hash_order >>

\* The state of an Overseer, of its event channel and of its handle.
VARIABLES
    overseer_pc,         \* "none" (no overseer), "run", "leaf_processor" or
                         \* "event_processor" (run waits for the processor
                         \* called for a leaf or an event), "returned"
    overseer_result,     \* what run returned: "running", "Ok", "Err", "Panic"
    leaves,              \* self.leaves: the leaves run has not notified yet
    active_leaves,       \* the HashMap: block hash -> number
    events_rx,           \* the events in the channel, oldest first
    handles,             \* the OverseerHandles alive (the channel's senders)
    parked_queue,        \* the senders parked by a send, oldest first
    sent,                \* the events sent so far, in the order of the sends
    handled,             \* the events run has taken from the channel
    process_calls,       \* the process_primary_block calls made, in order
    last_outcome         \* how the last of them went, if it is over

overseerVars == << overseer_pc, overseer_result, leaves, active_leaves,
                   events_rx, handles, parked_queue, sent, handled,
                   process_calls, last_outcome >>

dsnVars == << layout, archived_segments, dsn_pieces, client_blocks, client_best,
           pc, result, segment_headers, headers_store, segment_indices_iter,
           segment_index, reconstructor,
           semaphore, received_segment_pieces, segment_pieces, pieces_received,
           validation_failed, get_piece_calls, reconstructed_blocks,
           best_block_number,
           blocks_to_import, downloaded_blocks, import_calls, slept >>

vars == << dsnVars, farmerVars, overseerVars >>

\* What a run of import_blocks_from_dsn does not write: its inputs, the
\* farmer's peer index and the executor's overseer.
inputVars == << layout, archived_segments, dsn_pieces, client_blocks,
                farmerVars, overseerVars >>
pieceVars == << semaphore, received_segment_pieces, segment_pieces,
                pieces_received, validation_failed, get_piece_calls >>
blockVars == << reconstructed_blocks, best_block_number, blocks_to_import,
                downloaded_blocks, import_calls, slept >>

\* A piece future is "absent" (not created or dropped), "waiting" for a
\* permit, "fetching" (it holds a permit: get_piece is called at its next
\* poll and is in flight until it returns), or has returned Some or None.
FutureStates ==
    {"absent", "waiting", "fetching", "returned_some", "returned_none"}

NoFutures == [p \in PiecePositions |-> "absent"]
NoPieces == [p \in PiecePositions |-> None]
NoCalls == [p \in PiecePositions |-> 0]

\* A provider built without a validator.
piece_provider_validator_missing == "None"

\* The validator handed to the piece provider.
piece_provider_validator == "SegmentCommitmentPieceValidator"

\* A semaphore with a permit for every piece of the segment.
SemaphorePermits_all_pieces == NUM_PIECES

\* Semaphore::new(RecordedHistorySegment::NUM_RAW_RECORDS)
SemaphorePermits == NUM_RAW_RECORDS

\* An order that creates the futures of the parity pieces first.
SourceFirstOrder_parity_first == [i \in 1..NUM_PIECES |-> NUM_PIECES - i]

\* segment_piece_indexes_source_first(): the order in which the futures are
\* created, as positions (source pieces are the first half).
SourceFirstOrder == [i \in 1..NUM_PIECES |-> i - 1]

\* Positions folded onto the source half, and positions shifted by one.
Position_folded(p) == p % NUM_RAW_RECORDS
Position_shifted(p) == (p + 1) % NUM_PIECES

\* piece_index.position()
Position(p) == p

\* The driver's reading of get_piece's result: an error is no piece.
MaybePiece(res) == IF res.ok THEN res.piece ELSE None

\* A permit that is given back whatever the future returns, and one that is
\* never given back.
PermitOnReturn_always_release(maybe_piece) == "release"
PermitOnReturn_always_forget(maybe_piece) == "forget"

\* What happens to the permit when the future returns: forgotten with a
\* piece, dropped (released) without.
PermitOnReturn(maybe_piece) ==
    IF maybe_piece # None THEN "forget" ELSE "release"

\* pieces_received >= RecordedHistorySegment::NUM_RAW_RECORDS
ReceivedHalf(n) == n >= NUM_RAW_RECORDS

\* Dropping a permit: tokio's semaphore is fair, the permit goes to the
\* longest waiting acquire (the waiting future created first), and is
\* available again when no one waits.
Waiting(futs) == {p \in PiecePositions : futs[p] = "waiting"}
FirstWaiting(futs) == CHOOSE p \in Waiting(futs) : \A q \in Waiting(futs) : p <= q
\* A permit that goes back to the pool without waking a waiting acquire.
ReleasePermit_no_wakeup(futs, free) ==
    [futures |-> futs, free |-> free + 1]

\* The fair release.
ReleasePermit(futs, free) ==
    IF Waiting(futs) = {}
    THEN [futures |-> futs, free |-> free + 1]
    ELSE [futures |-> [futs EXCEPT ![FirstWaiting(futs)] = "fetching"],
          free |-> free]

\* A future that goes back to wait for a permit after a request without a
\* piece, to ask again.
AfterNone_asks_again == "waiting"

\* return None / Ok(None) under RetryPolicy::Limited(0): one request, and the
\* future is complete without a piece.
AfterNone == "returned_none"

\* get_piece is called once by every future that has got its permit: the
\* calls so far, when the futures go from before to after.
Requested(calls, before, after) ==
    [p \in PiecePositions |->
        IF after[p] = "fetching" /\ before[p] # "fetching"
        THEN calls[p] + 1 ELSE calls[p]]

\* The state at the call, but for the client's chain.
InitRun ==
    /\ layout \in Layouts
    /\ archived_segments \in 0..MaxSegments
    /\ dsn_pieces = ArchivedSegments[layout]
    /\ client_best \in 0..MaxBestNumber
    /\ pc = "download"
    /\ result = "running"
    /\ segment_headers = << >>
    /\ headers_store = << >>
    /\ segment_indices_iter = 0
    /\ segment_index = 0
    /\ reconstructor = FreshReconstructor
    /\ semaphore = 0
    /\ received_segment_pieces = NoFutures
    /\ segment_pieces = NoPieces
    /\ pieces_received = 0
    /\ validation_failed = FALSE
    /\ get_piece_calls = NoCalls
    /\ reconstructed_blocks = << >>
    /\ best_block_number = 0
    /\ blocks_to_import = << >>
    /\ downloaded_blocks = 0
    /\ import_calls = << >>
    /\ slept = FALSE

\* ArchivalStorageInfo::default(), no call made, and a second one.
NoUpdate ==
    [peer_id |-> None, cuckoo_filter_dto |-> [values |-> {}, length |-> 0]]
\* turn flips with every call that returns.
NoCall ==
    [op |-> "none", peer_id |-> None, arg |-> None, value |-> None,
     turn |-> FALSE]
NewArchivalStorageInfo ==
    /\ peers = NoPeers
    /\ hash_order = << >>
    /\ lock = NoClone
    /\ updating = [clone \in Clones |-> NoUpdate]
    /\ last_call = NoCall
    /\ twin_peers = NoPeers
    /\ twin_hash_order = << >>

(***************************************************************************)
(* The executor's overseer.  The blocks of the primary chain form a tree:  *)
(* block 1 is its root and block h has the parent h \div 2, so that a      *)
(* block has up to two children.  A block's hash stands for the block, and *)
(* its number is its depth in the tree.                                    *)
(***************************************************************************)

NumBlocks == 3
MaxEvents == 3
SIGNAL_CHANNEL_CAPACITY == 1
\* The most OverseerHandles alive at a time: the one of Overseer::new and
\* its clones.
MaxHandles == 2

Hashes == 1..NumBlocks
\* The parent hash of the root: the hash of no block.
NoHash == 0

ParentHash(hash) == hash \div 2

RECURSIVE BlockNumber(_)
BlockNumber(hash) ==
    IF ParentHash(hash) = NoHash THEN 0 ELSE BlockNumber(ParentHash(hash)) + 1

\* The BlockInfo of a block, as forward_events and
\* From<BlockImportNotification> build it from the block's header.
BlockInfo(hash) ==
    [hash |-> hash, parent_hash |-> ParentHash(hash),
     number |-> BlockNumber(hash)]

\* The (hash, number) lists and the maps an overseer is created with.  The
\* caller of Overseer::new chooses the numbers: they are the blocks' own, or
\* others.
OtherNumber(hash) == BlockNumber(hash) + 1
Leaf(hash, number) == [hash |-> hash, number |-> number]
LeafLists ==
    { [i \in 1..Len(list) |-> Leaf(list[i], BlockNumber(list[i]))] :
        list \in { << >>, << 1 >>, << 2, 3 >>, << 3, 2 >>, << 2, 2 >> } }
    \cup { << Leaf(1, OtherNumber(1)) >> }
NoLeaves == [hash \in Hashes |-> None]
ActiveLeavesMaps ==
    {NoLeaves} \cup
    UNION { { [NoLeaves EXCEPT ![hash] = number] :
                number \in {BlockNumber(hash), OtherNumber(hash)} } :
            hash \in Hashes }

\* The arguments leaves and active_leaves of Overseer::new: a list with an
\* empty map, a map with an empty list, a leaf that the map holds with
\* another number, and leaves whose parent the map holds.
OverseerInputs ==
    { << leaf_list, NoLeaves >> : leaf_list \in LeafLists } \cup
    { << << >>, active >> : active \in ActiveLeavesMaps } \cup
    { << << Leaf(1, BlockNumber(1)) >>,
         [NoLeaves EXCEPT ![1] = OtherNumber(1)] >>,
      << << Leaf(2, BlockNumber(2)), Leaf(3, BlockNumber(3)) >>,
         [NoLeaves EXCEPT ![1] = BlockNumber(1)] >> }

\* How a call of process_primary_block goes: the block's body or header is
\* not there (an error is logged, Ok is returned), a runtime API call made
\* ahead of the processor fails (Err), the processor is called and returns
\* no receipt (Ok), or it returns one, whose submission succeeds or fails.
ProcessOutcomes ==
    {"unavailable", "api_error", "no_receipt", "submitted", "submit_error"}
\* The call has not returned: it waits for the processor.
NoOutcome == "none"

\* The outcomes of a call that returns without calling the processor, and
\* those of a call after the processor's future has completed.
BeforeProcessor == {"unavailable", "api_error"}
AfterProcessor == ProcessOutcomes \ BeforeProcessor

\* The Result of process_primary_block.
ProcessResult(outcome) ==
    IF outcome \in {"api_error", "submit_error"} THEN "Err" ELSE "Ok"

\* process_primary_block(.., (hash, number)).await, as a record of the call.
ProcessPrimaryBlock(calls, hash, number) ==
    Append(calls, [hash |-> hash, number |-> number])

\* No overseer has been created.
NoOverseer ==
    /\ overseer_pc = "none"
    /\ overseer_result = "running"
    /\ leaves = << >>
    /\ active_leaves = NoLeaves
    /\ events_rx = << >>
    /\ handles = 0
    /\ parked_queue = << >>
    /\ sent = << >>
    /\ handled = << >>
    /\ process_calls = << >>
    /\ last_outcome = NoOutcome

\* The client is on the chain that was archived.
Init ==
    /\ InitRun
    /\ client_blocks = ChainBlocks(layout)
    /\ NewArchivalStorageInfo
    /\ NoOverseer

\* The client is on another chain than the one archived: every block of it
\* differs from the archived block of the same number.
InitForked ==
    /\ InitRun
    /\ client_blocks = ForkedChain(layout)
    /\ NewArchivalStorageInfo
    /\ NoOverseer

\* The errors the run returns, by the call that failed.
ErrGetSegmentHeaders == "Err(get_segment_headers)"
ErrAddSegmentHeaders == "Err(add_segment_headers)"
ErrReconstructorNew == "Err(Reconstructor::new)"
ErrAddSegment == "Err(add_segment)"
ErrWrongGenesis == "Err(Wrong genesis block, block import failed)"
ErrClientLookup == "Err(client.hash / client.block)"
ErrDecode == "Err(Block::decode)"

\* A run that starts over from the header download when a step fails.
Return_and_retry(res) ==
    /\ pc' = "download"
    /\ result' = res

\* return Err(..) / return Ok(..): the futures and buffers of the run are dropped.
Return(res) ==
    /\ pc' = "returned"
    /\ result' = res


\* segment_headers.is_empty()
HeadersEmpty_never(headers) == FALSE
HeadersEmpty(headers) == Len(headers) = 0

\* SegmentHeaderDownloader::get_segment_headers() and the empty check.
DownloadSegmentHeaders ==
    /\ pc = "download"
    /\ \/ /\ Return(ErrGetSegmentHeaders)
          /\ UNCHANGED segment_headers
       \/ /\ segment_headers' =
                [i \in 1..archived_segments |-> SegmentHeaderOf(layout, i - 1)]
          /\ IF HeadersEmpty(segment_headers')
             THEN Return("Ok")
             ELSE pc' = "store" /\ UNCHANGED result
    /\ UNCHANGED << inputVars, client_best, headers_store, segment_indices_iter,
                    segment_index, reconstructor, pieceVars, blockVars >>

\* What the header store holds after add_segment_headers(&segment_headers).
StoreHeaders_not_written(store, headers) == store
StoreHeaders(store, headers) == headers

\* segment_headers_store.add_segment_headers(&segment_headers)?
AddSegmentHeaders ==
    /\ pc = "store"
    /\ \/ /\ Return(ErrAddSegmentHeaders)
          /\ UNCHANGED headers_store
       \/ /\ headers_store' = StoreHeaders(headers_store, segment_headers)
          /\ pc' = "new_reconstructor"
          /\ UNCHANGED result
    /\ UNCHANGED << inputVars, client_best, segment_headers,
                    segment_indices_iter, segment_index, reconstructor,
                    pieceVars, blockVars >>

\* .skip(1): the first segment index the iterator yields.
FirstSegmentIndex_zero == 1 - 1
FirstSegmentIndex == 1

\* downloaded_blocks = 0, Reconstructor::new()?, the segment index iterator
\* (0..).take(segments_found).skip(1).
NewReconstructor ==
    /\ pc = "new_reconstructor"
    /\ \/ /\ Return(ErrReconstructorNew)
          /\ UNCHANGED << reconstructor, segment_indices_iter >>
       \/ /\ reconstructor' = FreshReconstructor
          /\ segment_indices_iter' = FirstSegmentIndex
          /\ pc' = "next_segment"
          /\ UNCHANGED result
    /\ UNCHANGED << inputVars, client_best, segment_headers, headers_store,
                    segment_index, pieceVars, blockVars >>

segments_found == Len(segment_headers)

\* A first clause that lets a segment ending at the best block through.
AlreadyImported_strict(header, best) == header.number < best

\* last_archived_block <= client.info().best_number: the segment's blocks
\* are imported already.
AlreadyImported(header, best) == header.number <= best

\* The second clause, with a best number of its own from client.info():
\* only a part of the very next block is archived and no segment follows.
OnlyPartOfNextBlock(header, best, peek_is_none) ==
    /\ header.number = best + 1
    /\ header.partial
    /\ peek_is_none

\* while let Some(segment_index) = segment_indices_iter.next(), up to the
\* first clause of the header check, which reads the client's best number:
\* a segment that is imported already is passed over with a new
\* reconstructor; for any other the second clause is evaluated next.
NextSegment ==
    /\ pc = "next_segment"
    /\ IF segment_indices_iter >= segments_found
       THEN /\ Return("Ok")
            /\ UNCHANGED << segment_indices_iter, segment_index, reconstructor >>
       ELSE /\ segment_index' = segment_indices_iter
            /\ segment_indices_iter' = segment_indices_iter + 1
            /\ IF AlreadyImported(segment_headers[segment_indices_iter + 1],
                                  client_best)
               THEN \/ /\ reconstructor' = FreshReconstructor
                       /\ pc' = "next_segment"
                       /\ UNCHANGED result
                    \/ /\ Return(ErrReconstructorNew)
                       /\ UNCHANGED reconstructor
               ELSE /\ pc' = "header_check"
                    /\ UNCHANGED << reconstructor, result >>
    /\ UNCHANGED << inputVars, client_best, segment_headers, headers_store,
                    pieceVars, blockVars >>

\* The second clause of the header check, which reads the client's best
\* number again: the client may have imported blocks since the first read.
HeaderCheck ==
    /\ pc = "header_check"
    /\ IF OnlyPartOfNextBlock(segment_headers[segment_index + 1], client_best,
                              segment_indices_iter >= segments_found)
       THEN \/ /\ reconstructor' = FreshReconstructor
               /\ pc' = "next_segment"
               /\ UNCHANGED result
            \/ /\ Return(ErrReconstructorNew)
               /\ UNCHANGED reconstructor
       ELSE /\ pc' = "new_semaphore"
            /\ UNCHANGED << reconstructor, result >>
    /\ UNCHANGED << inputVars, client_best, segment_headers, headers_store,
                    segment_indices_iter, segment_index, pieceVars,
                    blockVars >>

\* let semaphore = &Semaphore::new(NUM_RAW_RECORDS)
NewSemaphore ==
    /\ pc = "new_semaphore"
    /\ semaphore' = SemaphorePermits
    /\ pc' = "collect_futures"
    /\ UNCHANGED << inputVars, client_best, result, segment_headers,
                    headers_store, segment_indices_iter, segment_index,
                    reconstructor, received_segment_pieces, segment_pieces,
                    pieces_received, validation_failed, get_piece_calls,
                    blockVars >>

\* The futures are created in source-first order, each trying to acquire a
\* permit on creation; then segment_pieces and pieces_received are set up.
CollectFutures ==
    /\ pc = "collect_futures"
    /\ received_segment_pieces' =
          [p \in PiecePositions |->
              LET i == CHOOSE k \in 1..NUM_PIECES : SourceFirstOrder[k] = p
              IN  IF i <= semaphore THEN "fetching" ELSE "waiting"]
    /\ semaphore' = IF semaphore >= NUM_PIECES THEN semaphore - NUM_PIECES ELSE 0
    /\ get_piece_calls' = Requested(NoCalls, NoFutures, received_segment_pieces')
    /\ segment_pieces' = NoPieces
    /\ pieces_received' = 0
    /\ pc' = "retrieving"
    /\ UNCHANGED << inputVars, client_best, result, segment_headers,
                    headers_store, segment_indices_iter, segment_index,
                    reconstructor, validation_failed, blockVars >>

\* get_piece returns; the future returns with it and the collection loop takes
\* the result: None is passed over, a piece is stored at its position and
\* counted, and the loop is left when half of the segment is there.
ReturnFetch(p, outcome) ==
    /\ pc = "retrieving"
    /\ received_segment_pieces[p] = "fetching"
    /\ validation_failed' = (validation_failed \/ outcome = "invalid")
    /\ LET maybe_piece == MaybePiece(get_piece(piece_provider_validator, outcome,
                                               dsn_pieces[segment_index][p]))
           returned == [received_segment_pieces EXCEPT ![p] =
                           IF maybe_piece # None THEN "returned_some"
                           ELSE AfterNone]
           released == ReleasePermit(returned, semaphore)
       IN  /\ IF PermitOnReturn(maybe_piece) = "forget"
              THEN /\ received_segment_pieces' = returned
                   /\ UNCHANGED semaphore
              ELSE /\ received_segment_pieces' = released.futures
                   /\ semaphore' = released.free
           /\ get_piece_calls' =
                 Requested(get_piece_calls, returned, received_segment_pieces')
           /\ IF maybe_piece # None
              THEN /\ segment_pieces' =
                         [segment_pieces EXCEPT ![Position(p)] = maybe_piece]
                   /\ pieces_received' = pieces_received + 1
                   /\ pc' = IF ReceivedHalf(pieces_received + 1)
                            THEN "reconstruct" ELSE "retrieving"
              ELSE UNCHANGED << segment_pieces, pieces_received, pc >>
    /\ UNCHANGED << inputVars, client_best, result, segment_headers,
                    headers_store, segment_indices_iter, segment_index,
                    reconstructor, blockVars >>

\* received_segment_pieces.next() yields None: every future has returned.
StreamExhausted ==
    /\ pc = "retrieving"
    /\ \A p \in PiecePositions :
          received_segment_pieces[p] \in {"returned_some", "returned_none"}
    /\ pc' = "reconstruct"
    /\ UNCHANGED << inputVars, client_best, result, segment_headers,
                    headers_store, segment_indices_iter, segment_index,
                    reconstructor, pieceVars, blockVars >>


InitialSync == "NetworkInitialSync"
Broadcast == "NetworkBroadcast"

\* import_queue_service.import_blocks(origin, blocks)
ImportBlocks(calls, origin, blocks) ==
    Append(calls, [origin |-> origin, blocks |-> blocks])

\* An add_segment error that is passed over.
ReconstructionFailed_ignored(added) == FALSE

\* The ? on add_segment's result: an error ends the run.
ReconstructionFailed(added) == ~added.ok

\* reconstructor.add_segment(segment_pieces)?, drop(segment_pieces) and a new
\* blocks_to_import.
\* The stream of futures is not polled again once the collection loop is
\* left: what it still holds is frozen until it is dropped with the
\* iteration, and the model lets go of it here.
Reconstruct ==
    /\ pc = "reconstruct"
    /\ LET added == AddSegment(reconstructor, layout, segment_index, segment_pieces)
       IN  IF ReconstructionFailed(added)
           THEN /\ Return(ErrAddSegment)
                /\ UNCHANGED << reconstructor, reconstructed_blocks,
                                blocks_to_import >>
           ELSE /\ reconstructor' = added.reconstructor
                /\ reconstructed_blocks' = added.blocks
                /\ blocks_to_import' = << >>
                /\ pc' = "best_number"
                /\ UNCHANGED result
    /\ segment_pieces' = NoPieces
    /\ received_segment_pieces' = NoFutures
    /\ semaphore' = 0
    /\ validation_failed' = FALSE
    /\ get_piece_calls' = NoCalls
    /\ UNCHANGED << inputVars, client_best, segment_headers, headers_store,
                    segment_indices_iter, segment_index, pieces_received,
                    best_block_number, downloaded_blocks, import_calls, slept >>

\* let mut best_block_number = client.info().best_number, ahead of the loop
\* over the reconstructed blocks.
BestNumber ==
    /\ pc = "best_number"
    /\ best_block_number' = client_best
    /\ pc' = "next_block"
    /\ UNCHANGED << inputVars, client_best, result, segment_headers,
                    headers_store, segment_indices_iter, segment_index,
                    reconstructor, pieceVars, reconstructed_blocks,
                    blocks_to_import, downloaded_blocks, import_calls, slept >>

\* The head of the for loop over reconstructed_contents.blocks: a block at or
\* below best_block_number is passed over (the genesis block after comparing
\* it with the client's, which the client's backend may fail to look up),
\* any other goes on to the queue limit.
NextBlock ==
    /\ pc = "next_block"
    /\ IF reconstructed_blocks = << >>
       THEN /\ pc' = "segment_end"
            /\ UNCHANGED << result, reconstructed_blocks >>
       ELSE LET block == Head(reconstructed_blocks)
            IN  IF block.number <= best_block_number
                THEN \/ /\ block.number = 0
                        /\ Return(ErrClientLookup)
                        /\ UNCHANGED reconstructed_blocks
                     \/ IF block.number = 0
                           /\ client_blocks[0] # block.bytes
                        THEN /\ Return(ErrWrongGenesis)
                             /\ UNCHANGED reconstructed_blocks
                        ELSE /\ reconstructed_blocks' = Tail(reconstructed_blocks)
                             /\ UNCHANGED << pc, result >>
                ELSE /\ pc' = "queue_limit"
                     /\ UNCHANGED << result, reconstructed_blocks >>
    /\ UNCHANGED << inputVars, client_best, segment_headers, headers_store,
                    segment_indices_iter, segment_index, reconstructor,
                    pieceVars, best_block_number, blocks_to_import, downloaded_blocks,
                    import_calls, slept >>

\* A limit that lets one more block through.
QueueLimitReached_off_by_one(block_number, best) ==
    block_number - best > QUEUED_BLOCKS_LIMIT

\* block_number - best_block_number >= QUEUED_BLOCKS_LIMIT, for
\* block_number >= best_block_number.
QueueLimitReached(block_number, best) ==
    block_number - best >= QUEUED_BLOCKS_LIMIT

\* A flush that leaves the batch as it is.
AfterFlush_not_cleared(batch) == batch

\* The pending batch, when there is one, is handed over before the wait ...
FlushBeforeWait(calls, batch) ==
    IF batch # << >> THEN ImportBlocks(calls, InitialSync, batch) ELSE calls

\* ... and cleared: blocks_to_import.clear()
AfterFlush(batch) == << >>

\* downloaded_blocks += 1
CountDownloaded_not_counted(n) == n
CountDownloaded(n) == n + 1

\* One evaluation of the while condition of the queue limit, with what
\* follows it: the flush of the pending batch before the sleep, or the
\* decoding of the block (Block::decode(..)? ends the run when the bytes do
\* not decode) and its push to blocks_to_import.  When
\* best_block_number has passed block_number the subtraction underflows: a
\* build with overflow checks panics, any other wraps to a gap far above
\* the limit.
QueueLimit ==
    /\ pc = "queue_limit"
    /\ LET block == Head(reconstructed_blocks)
       IN  \/ /\ block.number >= best_block_number
              /\ ~QueueLimitReached(block.number, best_block_number)
              /\ blocks_to_import' = Append(blocks_to_import, block)
              /\ downloaded_blocks' = CountDownloaded(downloaded_blocks)
              /\ reconstructed_blocks' = Tail(reconstructed_blocks)
              /\ pc' = "next_block"
              /\ UNCHANGED << result, import_calls >>
           \/ /\ block.number >= best_block_number
              /\ ~QueueLimitReached(block.number, best_block_number)
              /\ Return(ErrDecode)
              /\ UNCHANGED << blocks_to_import, downloaded_blocks,
                              reconstructed_blocks, import_calls >>
           \/ /\ \/ block.number < best_block_number
                 \/ QueueLimitReached(block.number, best_block_number)
              /\ import_calls' = FlushBeforeWait(import_calls, blocks_to_import)
              /\ blocks_to_import' = AfterFlush(blocks_to_import)
              /\ pc' = "sleep"
              /\ UNCHANGED << result, downloaded_blocks, reconstructed_blocks >>
           \/ /\ block.number < best_block_number
              /\ Return("Panic")
              /\ UNCHANGED << blocks_to_import, downloaded_blocks,
                              reconstructed_blocks, import_calls >>
    /\ UNCHANGED << inputVars, client_best, segment_headers, headers_store,
                    segment_indices_iter, segment_index, reconstructor,
                    pieceVars, best_block_number, slept >>

\* tokio::time::sleep(WAIT_FOR_BLOCKS_TO_IMPORT).await
Sleep ==
    /\ pc = "sleep"
    /\ slept' = TRUE
    /\ pc' = "read_best"
    /\ UNCHANGED << inputVars, client_best, result, segment_headers,
                    headers_store, segment_indices_iter, segment_index,
                    reconstructor, pieceVars, reconstructed_blocks,
                    best_block_number, blocks_to_import, downloaded_blocks,
                    import_calls >>

\* best_block_number = client.info().best_number, back to the while condition.
ReadBest ==
    /\ pc = "read_best"
    /\ best_block_number' = client_best
    /\ slept' = FALSE
    /\ pc' = "queue_limit"
    /\ UNCHANGED << inputVars, client_best, result, segment_headers,
                    headers_store, segment_indices_iter, segment_index,
                    reconstructor, pieceVars, reconstructed_blocks,
                    blocks_to_import, downloaded_blocks, import_calls >>

\* The final block sent again without being popped from the batch.
LastSegmentCalls_not_popped(calls, batch) ==
    ImportBlocks(ImportBlocks(calls, InitialSync, batch),
                 Broadcast, << batch[Len(batch)] >>)

\* The whole batch of the last segment sent as one broadcast.
LastSegmentCalls_broadcast_all(calls, batch) ==
    ImportBlocks(calls, Broadcast, batch)

\* The submission for the last segment: the final block is popped and sent
\* on its own as a broadcast after the others.
LastSegmentCalls(calls, batch) ==
    ImportBlocks(
        ImportBlocks(calls, InitialSync, SubSeq(batch, 1, Len(batch) - 1)),
        Broadcast, << batch[Len(batch)] >>)

\* After the for loop: nothing pending ends the run; otherwise the batch is
\* submitted, for the last segment with its final block on its own as a
\* broadcast, and the loop goes on to the next segment.
EndOfSegment ==
    /\ pc = "segment_end"
    /\ IF blocks_to_import = << >>
       THEN /\ Return("Ok")
            /\ UNCHANGED << import_calls, blocks_to_import >>
       ELSE /\ import_calls' =
                  IF segment_indices_iter >= segments_found
                  THEN LastSegmentCalls(import_calls, blocks_to_import)
                  ELSE ImportBlocks(import_calls, InitialSync, blocks_to_import)
            /\ blocks_to_import' = << >>
            /\ pc' = "next_segment"
            /\ UNCHANGED result
    /\ UNCHANGED << inputVars, client_best, segment_headers, headers_store,
                    segment_indices_iter, segment_index, reconstructor,
                    pieceVars, reconstructed_blocks, best_block_number,
                    downloaded_blocks, slept >>

\* The client's best block number moves up, a block at a time (the import
\* queue or the node's own sync imported a block).  The run observes it only where it reads
\* client.info(), so the step is taken right before such a read.
ClientAdvances ==
    /\ pc \in {"next_segment", "header_check", "best_number", "read_best"}
    /\ client_best < MaxBestNumber
    /\ client_best' = client_best + 1
    /\ UNCHANGED << inputVars, pc, result, segment_headers, headers_store,
                    segment_indices_iter, segment_index, reconstructor,
                    pieceVars, blockVars >>

\* The steps of the run itself.
DriverStep ==
    \/ DownloadSegmentHeaders
    \/ AddSegmentHeaders
    \/ NewReconstructor
    \/ NextSegment
    \/ HeaderCheck
    \/ NewSemaphore
    \/ CollectFutures
    \/ \E p \in PiecePositions : \E outcome \in NetworkOutcomes :
          ReturnFetch(p, outcome)
    \/ StreamExhausted
    \/ Reconstruct
    \/ BestNumber
    \/ NextBlock
    \/ QueueLimit
    \/ Sleep
    \/ ReadBest
    \/ EndOfSegment

Next == DriverStep \/ ClientAdvances

Spec == Init /\ [][Next]_vars

\* The runs in which the client's best block number never moves.
SpecStalled == Init /\ [][DriverStep]_vars

\* The runs on a node whose chain is not the archived one.
SpecForked == InitForked /\ [][Next]_vars

\* The import queue imports the block after the client's best block, once
\* the run has submitted it: the best block number goes up by one.  The run
\* sees the number only where it reads client.info(), so the imports made
\* while pieces are retrieved are taken when the retrieval is over; in the
\* loop that waits for the queue they are possible at every point.
ImportQueueImports ==
    /\ pc \in {"next_segment", "header_check", "best_number", "queue_limit",
               "sleep", "read_best"}
    /\ \E call \in 1..Len(import_calls) :
          \E k \in 1..Len(import_calls[call].blocks) :
              import_calls[call].blocks[k].number = client_best + 1
    /\ client_best' = client_best + 1
    /\ UNCHANGED << inputVars, pc, result, segment_headers, headers_store,
                    segment_indices_iter, segment_index, reconstructor,
                    pieceVars, blockVars >>

NextImporting == Next \/ ImportQueueImports

\* The runs in which the task of the run is polled whenever it can go on,
\* every get_piece call returns and the import queue does its work on what
\* is submitted to it.  The client may import blocks that reach it by other
\* ways as well; nothing obliges it to.
SpecImporting ==
    /\ Init
    /\ [][NextImporting]_vars
    /\ WF_vars(DriverStep)
    /\ WF_vars(ImportQueueImports)

\* The runs, with a client that stands still, in which the task of the run
\* is polled whenever it can go on and every get_piece call returns.
SpecFetchesReturn == Init /\ [][DriverStep]_vars /\ WF_vars(DriverStep)

(***************************************************************************)
(* The calls into an ArchivalStorageInfo from its clones.  A call that     *)
(* waits for the Mutex has done nothing yet, so a call begins where it     *)
(* takes the lock.                                                         *)
(***************************************************************************)

\* A guard dropped right after the insert, the truncation locking again.
LockAfterInsert_released(clone) == NoClone

\* let mut peer_filters = self.peers.lock(): the guard lives to the end of
\* update_cuckoo_filter.
LockAfterInsert(clone) == clone

\* update_cuckoo_filter up to the insert: the filter is rebuilt from the
\* DTO, the lock is taken and the entry is written.
UpdateCuckooFilterInsert(clone, peer_id, cuckoo_filter_dto) ==
    /\ lock = NoClone
    /\ updating[clone] = NoUpdate
    /\ peers' = Insert(peers, peer_id, CuckooFilterFrom(cuckoo_filter_dto))
    /\ hash_order' \in KeyOrders(peers')
    /\ lock' = LockAfterInsert(clone)
    /\ updating' = [updating EXCEPT ![clone] =
                       [peer_id |-> peer_id,
                        cuckoo_filter_dto |-> cuckoo_filter_dto]]
    /\ UNCHANGED << dsnVars, overseerVars, last_call, twin_peers,
                    twin_hash_order >>

\* The rest of update_cuckoo_filter: the truncation of the map to the limit
\* and the return, which drops the guard.
UpdateCuckooFilterTruncate(clone) ==
    /\ updating[clone] # NoUpdate
    /\ lock = LockAfterInsert(clone)
    /\ peers' = Truncate(peers, hash_order, updating[clone].peer_id)
    /\ hash_order' = Keys(peers', hash_order)
    /\ lock' = NoClone
    /\ updating' = [updating EXCEPT ![clone] = NoUpdate]
    /\ last_call' =
          [op |-> "update_cuckoo_filter",
           peer_id |-> updating[clone].peer_id,
           arg |-> updating[clone].cuckoo_filter_dto,
           value |-> RemovingPeerId(peers, hash_order, updating[clone].peer_id),
           turn |-> ~last_call.turn]
    /\ UNCHANGED << dsnVars, overseerVars, twin_peers, twin_hash_order >>

\* remove_peer_filter: lock, remove, unlock in one statement.
RemovePeerFilterCall(clone, peer_id) ==
    /\ lock = NoClone
    /\ updating[clone] = NoUpdate
    /\ peers' = RemovePeerFilter(peers, peer_id)
    /\ hash_order' = Keys(peers', hash_order)
    /\ last_call' =
          [op |-> "remove_peer_filter", peer_id |-> peer_id, arg |-> None,
           value |-> RemoveReturn(peers, peer_id),
           turn |-> ~last_call.turn]
    /\ UNCHANGED << dsnVars, overseerVars, lock, updating, twin_peers,
                    twin_hash_order >>

\* peers_contain_piece: the guard is held for the whole scan.
PeersContainPieceCall(clone, piece_index) ==
    /\ lock = NoClone
    /\ updating[clone] = NoUpdate
    /\ last_call' =
          [op |-> "peers_contain_piece", peer_id |-> None, arg |-> piece_index,
           value |-> PeersContainPiece(peers, hash_order, piece_index),
           turn |-> ~last_call.turn]
    /\ UNCHANGED << dsnVars, overseerVars, peers, hash_order, lock, updating,
                    twin_peers, twin_hash_order >>

NextPeers ==
    \/ \E clone \in Clones, peer_id \in PeerIds, dto \in CuckooFilterDTOs :
          UpdateCuckooFilterInsert(clone, peer_id, dto)
    \/ \E clone \in Clones : UpdateCuckooFilterTruncate(clone)
    \/ \E clone \in Clones, peer_id \in PeerIds :
          RemovePeerFilterCall(clone, peer_id)
    \/ \E clone \in Clones, piece_index \in PieceIndexes :
          PeersContainPieceCall(clone, piece_index)

\* No run of import_blocks_from_dsn is under way.
NoRun ==
    /\ InitRun
    /\ layout = << 1, 1 >>
    /\ archived_segments = 0
    /\ client_best = 0
    /\ client_blocks = ChainBlocks(layout)

InitPeers ==
    /\ NoRun
    /\ NewArchivalStorageInfo
    /\ NoOverseer

\* One ArchivalStorageInfo, new and empty, and the calls of its clones.
SpecPeers == InitPeers /\ [][NextPeers]_vars

\* Two ArchivalStorageInfo, each with its own map, given the same calls one
\* after the other.
TwinUpdate(peer_id, cuckoo_filter_dto) ==
    LET cuckoo_filter == CuckooFilterFrom(cuckoo_filter_dto)
    IN  /\ \E order \in KeyOrders(Insert(peers, peer_id, cuckoo_filter)) :
              /\ peers' = UpdateCuckooFilter(peers, order, peer_id,
                                             cuckoo_filter_dto)
              /\ hash_order' = Keys(peers', order)
        /\ \E order \in KeyOrders(Insert(twin_peers, peer_id, cuckoo_filter)) :
              /\ twin_peers' = UpdateCuckooFilter(twin_peers, order, peer_id,
                                                  cuckoo_filter_dto)
              /\ twin_hash_order' = Keys(twin_peers', order)
        /\ UNCHANGED << dsnVars, overseerVars, lock, updating, last_call >>

TwinRemove(peer_id) ==
    /\ peers' = RemovePeerFilter(peers, peer_id)
    /\ hash_order' = Keys(peers', hash_order)
    /\ twin_peers' = RemovePeerFilter(twin_peers, peer_id)
    /\ twin_hash_order' = Keys(twin_peers', twin_hash_order)
    /\ UNCHANGED << dsnVars, overseerVars, lock, updating, last_call >>

NextTwin ==
    \/ \E peer_id \in PeerIds, dto \in CuckooFilterDTOs :
          TwinUpdate(peer_id, dto)
    \/ \E peer_id \in PeerIds : TwinRemove(peer_id)

InitTwin ==
    /\ NoRun
    /\ NewArchivalStorageInfo
    /\ NoOverseer

SpecTwin == InitTwin /\ [][NextTwin]_vars

(***************************************************************************)
(* The overseer: Overseer::new, the steps of Overseer::run and the calls   *)
(* of the OverseerHandle, which go on while run processes a block.         *)
(***************************************************************************)

\* Overseer::new(.., leaves, active_leaves, ..): the overseer, and the one
\* OverseerHandle for the channel made by mpsc::channel.
NewOverseer(leaf_list, active) ==
    /\ overseer_pc = "run"
    /\ overseer_result = "running"
    /\ leaves = leaf_list
    /\ active_leaves = active
    /\ events_rx = << >>
    /\ handles = 1
    /\ parked_queue = << >>
    /\ sent = << >>
    /\ handled = << >>
    /\ process_calls = << >>
    /\ last_outcome = NoOutcome

\* run has not returned: it is in one of its loops or waits for the
\* processor inside process_primary_block.
Running == {"run", "leaf_processor", "event_processor"}

\* A sender in the queue of parked senders, and one that was dropped while
\* it was there: its entry stays in the queue.
ParkedSender == "parked"
DroppedSender == "dropped"

\* The senders alive that are parked.
NumParked(queue) ==
    Cardinality({i \in 1..Len(queue) : queue[i] = ParkedSender})

\* mpsc::channel(SIGNAL_CHANNEL_CAPACITY): a send puts its event into the
\* channel, and parks the sender when the channel then holds more events
\* than the buffer; a parked sender sends again only after the receiver
\* has unparked it.  Every sender can so have one event in the channel on
\* top of the buffer.
ParksSender(queue) == Len(queue) > SIGNAL_CHANNEL_CAPACITY

\* The parked senders after a send that left queue in the channel.
ParkAfterSend(parked, queue) ==
    IF ParksSender(queue) THEN Append(parked, ParkedSender) ELSE parked

\* The receiver unparks the sender parked first with every event it takes;
\* the entry of a dropped sender uses up its turn.
UnparkOne(parked) == IF parked = << >> THEN parked ELSE Tail(parked)

\* A receiver that yields the newest event first.
Received_newest(queue) ==
    [msg |-> queue[Len(queue)], rest |-> SubSeq(queue, 1, Len(queue) - 1)]

\* self.events_rx.next().await with an event in the channel.
Received(queue) == [msg |-> Head(queue), rest |-> Tail(queue)]

\* An entry that is taken for vacant whatever the map holds.
AlreadyActive_never(active, hash) == FALSE

\* Entry::Occupied for self.active_leaves.entry(block.hash)
AlreadyActive(active, hash) == active[hash] # None

\* self.active_leaves.remove(&block.parent_hash)
RemoveParent(active, parent_hash) ==
    IF parent_hash \in Hashes
    THEN [active EXCEPT ![parent_hash] = None]
    ELSE active

\* block.number.saturating_sub(One::one())
SaturatingSubOne(number) == IF number = 0 THEN 0 ELSE number - 1

\* The debug_assert_eq! on the path block_imported takes for the block: the
\* one on the number found in an occupied entry, or the one on the number
\* removed with the parent's entry.
DebugAssertions(active, block) ==
    IF AlreadyActive(active, block.hash)
    THEN active[block.hash] = block.number
    ELSE (block.parent_hash \in Hashes /\ active[block.parent_hash] # None) =>
            active[block.parent_hash] = SaturatingSubOne(block.number)

\* self.active_leaves where block_imported has passed its match and the
\* removal of the parent: an occupied entry leaves the map as it is, a
\* vacant one gets the block's number and the parent's entry is removed.
ActiveLeavesAfter(active, block) ==
    IF AlreadyActive(active, block.hash)
    THEN active
    ELSE RemoveParent([active EXCEPT ![block.hash] = block.number],
                      block.parent_hash)

\* What a queue of the channel holds when run is at run_result: run owns
\* the overseer, so its return and its unwinding drop the Receiver, which
\* discards the events still in the channel and wakes every parked sender.
DroppedWithReceiver(run_result, queue) ==
    IF run_result = "running" THEN queue ELSE << >>

\* A block_imported that hands on the error of process_primary_block.
BlockImportedResult_handed_on(outcome) == ProcessResult(outcome)

\* block_imported logs the error of process_primary_block and returns Ok(()).
BlockImportedResult(outcome) == "Ok"

\* OverseerHandle::block_imported on a handle that is not parked: the event
\* is put into the channel, and the send returns once the handle is not
\* parked.  A parked handle's send waits.  (A send to an overseer whose run
\* has returned or panicked fails, is logged and changes nothing.)
HandleBlockImported(hash) ==
    /\ overseer_pc \in Running
    /\ handles > NumParked(parked_queue)
    /\ Len(sent) < MaxEvents
    /\ events_rx' = Append(events_rx, BlockInfo(hash))
    /\ parked_queue' = ParkAfterSend(parked_queue, events_rx')
    /\ sent' = Append(sent, BlockInfo(hash))
    /\ UNCHANGED << dsnVars, farmerVars, overseer_pc, overseer_result, leaves,
                    active_leaves, handles, handled, process_calls,
                    last_outcome >>

\* handle.clone(): one more sender of the channel, which is not parked.
CloneHandle ==
    /\ handles > 0
    /\ handles < MaxHandles
    /\ handles' = handles + 1
    /\ UNCHANGED << dsnVars, farmerVars, overseer_pc, overseer_result, leaves,
                    active_leaves, events_rx, parked_queue, sent, handled,
                    process_calls, last_outcome >>

\* An OverseerHandle is dropped, one that is not parked or, with the task
\* that waits in its send, one that is; the channel is closed with the last
\* of them.
DropHandle ==
    /\ handles > 0
    /\ handles' = handles - 1
    /\ \/ /\ handles > NumParked(parked_queue)
          /\ UNCHANGED parked_queue
       \/ \E i \in 1..Len(parked_queue) :
             /\ parked_queue[i] = ParkedSender
             /\ parked_queue' = [parked_queue EXCEPT ![i] = DroppedSender]
    /\ UNCHANGED << dsnVars, farmerVars, overseer_pc, overseer_result, leaves,
                    active_leaves, events_rx, sent, handled, process_calls,
                    last_outcome >>

\* One pass of the for loop at the start of run, over the list taken out of
\* self.leaves, up to the return of process_primary_block or to its wait
\* for the processor: the leaf is inserted and the call is made; an error
\* is logged.
NotifyLeaf(outcome) ==
    /\ overseer_pc = "run"
    /\ leaves # << >>
    /\ LET leaf == Head(leaves)
       IN  /\ active_leaves' =
                 [active_leaves EXCEPT ![leaf.hash] = leaf.number]
           /\ process_calls' =
                 ProcessPrimaryBlock(process_calls, leaf.hash, leaf.number)
    /\ last_outcome' = outcome
    /\ overseer_pc' = IF outcome = NoOutcome THEN "leaf_processor" ELSE "run"
    /\ leaves' = Tail(leaves)
    /\ UNCHANGED << dsnVars, farmerVars, overseer_result, events_rx, handles,
                    parked_queue, sent, handled >>

\* Overseer::block_imported(block), up to its return or to the wait for the
\* processor, for which outcome is NoOutcome.
OverseerBlockImported(block, outcome) ==
    IF AlreadyActive(active_leaves, block.hash)
    THEN UNCHANGED << active_leaves, process_calls, last_outcome,
                      overseer_pc, overseer_result >>
    ELSE /\ active_leaves' = ActiveLeavesAfter(active_leaves, block)
         /\ process_calls' =
               ProcessPrimaryBlock(process_calls, block.hash, block.number)
         /\ last_outcome' = outcome
         /\ IF outcome = NoOutcome
            THEN /\ overseer_pc' = "event_processor"
                 /\ UNCHANGED overseer_result
            ELSE IF BlockImportedResult(outcome) = "Err"
            THEN /\ overseer_pc' = "returned"
                 /\ overseer_result' = "Err"
            ELSE UNCHANGED << overseer_pc, overseer_result >>

\* One pass of the while loop of run, up to the end of the pass or to the
\* wait for the processor: an event is taken from the channel and
\* self.block_imported(block).await? is run on it.  In a build with debug
\* assertions block_imported panics when one of them fails: at the one of
\* an occupied entry nothing has changed, at the one on the parent's number
\* the block is inserted and the parent removed already; the processor is
\* not called, and the unwinding of run drops the overseer with its
\* Receiver.  A build without them goes on as with any other event.
HandleEvent ==
    /\ overseer_pc = "run"
    /\ leaves = << >>
    /\ events_rx # << >>
    /\ LET received == Received(events_rx)
       IN  /\ handled' = Append(handled, received.msg)
           /\ \/ \E outcome \in BeforeProcessor \cup {NoOutcome} :
                    OverseerBlockImported(received.msg, outcome)
              \/ /\ ~DebugAssertions(active_leaves, received.msg)
                 /\ active_leaves' =
                       ActiveLeavesAfter(active_leaves, received.msg)
                 /\ overseer_pc' = "returned"
                 /\ overseer_result' = "Panic"
                 /\ UNCHANGED << process_calls, last_outcome >>
           /\ events_rx' = DroppedWithReceiver(overseer_result', received.rest)
           /\ parked_queue' =
                 DroppedWithReceiver(overseer_result', UnparkOne(parked_queue))
    /\ UNCHANGED << dsnVars, farmerVars, leaves, handles, sent >>

\* The processor's future completes and process_primary_block goes on to
\* its return: no receipt, or a receipt whose submission succeeds or fails;
\* the caller logs an error, and run goes on with its loop.
ProcessorReturns(outcome) ==
    /\ overseer_pc \in {"leaf_processor", "event_processor"}
    /\ last_outcome' = outcome
    /\ IF overseer_pc = "event_processor"
             /\ BlockImportedResult(outcome) = "Err"
       THEN /\ overseer_pc' = "returned"
            /\ overseer_result' = "Err"
       ELSE /\ overseer_pc' = "run"
            /\ UNCHANGED overseer_result
    /\ events_rx' = DroppedWithReceiver(overseer_result', events_rx)
    /\ parked_queue' = DroppedWithReceiver(overseer_result', parked_queue)
    /\ UNCHANGED << dsnVars, farmerVars, leaves, active_leaves, handles, sent,
                    handled, process_calls >>

\* self.events_rx.next().await yields None, the channel being closed and
\* empty: run returns Ok(()).
RunReturns ==
    /\ overseer_pc = "run"
    /\ leaves = << >>
    /\ events_rx = << >>
    /\ handles = 0
    /\ overseer_pc' = "returned"
    /\ overseer_result' = "Ok"
    /\ parked_queue' = DroppedWithReceiver(overseer_result', parked_queue)
    /\ UNCHANGED << dsnVars, farmerVars, leaves, active_leaves, events_rx,
                    handles, sent, handled, process_calls, last_outcome >>

NextOverseer ==
    \/ \E hash \in Hashes : HandleBlockImported(hash)
    \/ CloneHandle
    \/ DropHandle
    \/ \E outcome \in BeforeProcessor \cup {NoOutcome} : NotifyLeaf(outcome)
    \/ HandleEvent
    \/ \E outcome \in AfterProcessor : ProcessorReturns(outcome)
    \/ RunReturns

InitOverseer ==
    /\ NoRun
    /\ NewArchivalStorageInfo
    /\ \E input \in OverseerInputs : NewOverseer(input[1], input[2])

\* An overseer with its handles, from Overseer::new on.
SpecOverseer == InitOverseer /\ [][NextOverseer]_vars

-----------------------------------------------------------------------------
\* Piece retrieval.

InFlight == {p \in PiecePositions : received_segment_pieces[p] = "fetching"}
ReturnedSome == {p \in PiecePositions : received_segment_pieces[p] = "returned_some"}
ReturnedNone == {p \in PiecePositions : received_segment_pieces[p] = "returned_none"}
ParityPositions == PiecePositions \ SourcePositions
Retrieval == {"retrieving", "reconstruct"}

\* C1: while a segment is processed, the fetches in flight plus the usable
\* pieces already obtained for it never exceed NUM_RAW_RECORDS.
C1_FetchesBounded ==
    /\ Cardinality(InFlight) + Cardinality(ReturnedSome) <= NUM_RAW_RECORDS
    /\ Cardinality(InFlight) + pieces_received <= NUM_RAW_RECORDS

\* A parity fetch is in flight next to a piece already obtained.
C1_Witness ==
    /\ pc = "retrieving"
    /\ pieces_received >= 1
    /\ InFlight \cap ParityPositions # {}
    /\ Cardinality(InFlight) + pieces_received = NUM_RAW_RECORDS

\* C2: the usable pieces collected for a segment never exceed
\* NUM_RAW_RECORDS; once NUM_RAW_RECORDS are collected no fetch is in flight
\* and no permit is left to start one, so nothing is started or added any
\* more; and the set handed to the reconstructor on that path holds exactly
\* NUM_RAW_RECORDS pieces at distinct positions.
C2_ExactlyHalfCollected ==
    /\ pieces_received <= NUM_RAW_RECORDS
    /\ pc \in Retrieval =>
          /\ Cardinality(PresentPositions(segment_pieces)) = pieces_received
          /\ PresentPositions(segment_pieces) = {Position(p) : p \in ReturnedSome}
    /\ (pc = "reconstruct" /\ pieces_received >= NUM_RAW_RECORDS) =>
          /\ InFlight = {}
          /\ semaphore = 0
          /\ Cardinality(PresentPositions(segment_pieces)) = NUM_RAW_RECORDS

\* The threshold is reached with a parity piece in the set, after a fetch
\* failed and while another was never started.
C2_Witness ==
    /\ pc = "reconstruct"
    /\ pieces_received = NUM_RAW_RECORDS
    /\ PresentPositions(segment_pieces) \cap ParityPositions # {}
    /\ ReturnedNone # {}
    /\ Waiting(received_segment_pieces) # {}

\* C3: during retrieval free slots + slots held by fetches in flight + usable
\* pieces obtained = NUM_RAW_RECORDS; a slot is gone for good exactly with a
\* usable piece (the pieces counted are the futures that returned one) and
\* every new segment starts with NUM_RAW_RECORDS free slots.
C3_SlotAccounting ==
    /\ pc = "collect_futures" => semaphore = NUM_RAW_RECORDS
    /\ pc \in Retrieval =>
          /\ semaphore + Cardinality(InFlight) + Cardinality(ReturnedSome)
                = NUM_RAW_RECORDS
          /\ Cardinality(ReturnedSome) = pieces_received

\* A later segment, with a slot free again after failures and a piece held.
C3_Witness ==
    /\ pc = "retrieving"
    /\ segment_index > 1
    /\ semaphore > 0
    /\ pieces_received > 0
    /\ ReturnedNone # {}

\* C4: a fetch that returns no usable piece is not counted and not stored,
\* and its slot is free again: the first fetch not yet started, if there is
\* one, is started in its place, else the slot is back in the semaphore.
C4_FailedFetchStep ==
    \A p \in PiecePositions :
        (received_segment_pieces[p] = "fetching"
            /\ received_segment_pieces'[p] = "returned_none") =>
        /\ pieces_received' = pieces_received
        /\ segment_pieces' = segment_pieces
        /\ IF Waiting(received_segment_pieces) # {}
           THEN /\ received_segment_pieces'[FirstWaiting(received_segment_pieces)]
                      = "fetching"
                /\ semaphore' = semaphore
           ELSE semaphore' = semaphore + 1

C4_FailedFetchReplaced == [][C4_FailedFetchStep]_vars

\* A source fetch failed, its position is empty, and a parity fetch runs.
C4_Witness ==
    /\ pc = "retrieving"
    /\ \E p \in SourcePositions :
          /\ received_segment_pieces[p] = "returned_none"
          /\ segment_pieces[Position(p)] = None
    /\ InFlight \cap ParityPositions # {}
    /\ pieces_received < Cardinality(ReturnedSome \cup ReturnedNone)

\* C5: every piece stored and counted is the archived piece of its position
\* (it passed the validation against the segment's commitment); a piece that
\* fails validation is never stored: its future returns no piece.
C5_OnlyValidatedPieces ==
    pc \in Retrieval =>
        /\ \A q \in PiecePositions :
              segment_pieces[q] # None =>
                 segment_pieces[q] = dsn_pieces[segment_index][q]
        /\ pieces_received = Cardinality(PresentPositions(segment_pieces))

\* A piece failed its validation and others were accepted.
C5_Witness ==
    /\ pc \in Retrieval
    /\ validation_failed
    /\ ReturnedNone # {}
    /\ pieces_received > 0

-----------------------------------------------------------------------------
\* Reconstruction and import.

BlockPhase ==
    {"best_number", "next_block", "queue_limit", "sleep", "read_best",
     "segment_end"}

\* The blocks handed to import_blocks so far, in the order of submission.
SubmittedBlocks ==
    LET upto[i \in 0..Len(import_calls)] ==
            IF i = 0 THEN << >> ELSE upto[i - 1] \o import_calls[i].blocks
    IN  upto[Len(import_calls)]

SubmittedNumbers ==
    {SubmittedBlocks[i].number : i \in 1..Len(SubmittedBlocks)}
PendingNumbers ==
    {blocks_to_import[i].number : i \in 1..Len(blocks_to_import)}

\* The segment in which block n ends (the segment whose reconstruction
\* yields it).
SegmentOfBlock(n) == (BlockEnd(layout, n) - 1) \div NUM_RAW_RECORDS

AllFetchesReturned == ReturnedSome \cup ReturnedNone = PiecePositions

C6_State ==
    /\ pc \in BlockPhase => pieces_received >= NUM_RAW_RECORDS
    /\ (pc = "reconstruct" /\ pieces_received < NUM_RAW_RECORDS) =>
          AllFetchesReturned
    /\ (pieces_received < NUM_RAW_RECORDS
            /\ (pc = "reconstruct" \/ result = ErrAddSegment)
            /\ segment_index >= 1) =>
          /\ \A n \in SubmittedNumbers : SegmentOfBlock(n) < segment_index
          /\ blocks_to_import = << >>

C6_Step ==
    /\ (pc = "reconstruct" /\ pieces_received < NUM_RAW_RECORDS) =>
          /\ import_calls' = import_calls
          /\ blocks_to_import' = << >>
          /\ pc' = "returned"
          /\ result' = ErrAddSegment
    /\ pc = "returned" => import_calls' = import_calls

\* C6: a segment whose NUM_PIECES fetches have all returned with fewer than
\* NUM_RAW_RECORDS usable pieces is not reconstructed: the run returns an
\* error at once, the block loop is never entered with fewer pieces, nothing
\* is pending, and no block of that segment or of a later one is submitted,
\* then or afterwards.
C6_TooFewPiecesIsAnError == []C6_State /\ [][C6_Step]_vars

\* The second segment processed failed after blocks of the first went out.
C6_Witness ==
    /\ pc = "returned"
    /\ result = ErrAddSegment
    /\ segment_index >= 2
    /\ pieces_received < NUM_RAW_RECORDS
    /\ pieces_received > 0
    /\ import_calls # << >>

\* C7: whatever NUM_RAW_RECORDS pieces of a segment were collected, source
\* or parity, in whatever order, reconstruction succeeds, recovers the
\* segment's source records and yields blocks with exactly the bytes the
\* chain has for them.
C7_ReconstructsOriginal ==
    /\ (pc = "reconstruct"
            /\ Cardinality(PresentPositions(segment_pieces)) >= NUM_RAW_RECORDS) =>
          LET added == AddSegment(reconstructor, layout, segment_index,
                                  segment_pieces)
          IN  /\ added.ok
              /\ \A i \in SourcePositions :
                    RecoverRecords(segment_pieces)[i]
                        = dsn_pieces[segment_index][i]
              /\ \A k \in 1..Len(added.blocks) :
                    added.blocks[k].bytes = client_blocks[added.blocks[k].number]
    /\ \A k \in 1..Len(reconstructed_blocks) :
          reconstructed_blocks[k].bytes
              = client_blocks[reconstructed_blocks[k].number]
    /\ \A k \in 1..Len(SubmittedBlocks) :
          SubmittedBlocks[k].bytes = client_blocks[SubmittedBlocks[k].number]

\* A segment is about to be reconstructed from parity pieces alone, with the
\* start of its first block carried over from the segment before.
C7_Witness ==
    /\ pc = "reconstruct"
    /\ Cardinality(PresentPositions(segment_pieces)) = NUM_RAW_RECORDS
    /\ PresentPositions(segment_pieces) \subseteq ParityPositions
    /\ reconstructor.partial # << >>
    /\ AddSegment(reconstructor, layout, segment_index,
                  segment_pieces).blocks # << >>

\* C8: over the whole run the blocks submitted, batch after batch, have
\* strictly increasing numbers: none is submitted twice or out of order.
C8_SubmittedIncreasing ==
    \A i \in 1..(Len(SubmittedBlocks) - 1) :
        SubmittedBlocks[i].number < SubmittedBlocks[i + 1].number

\* A flush, an end-of-segment batch and the broadcast of the last block.
C8_Witness ==
    /\ Len(import_calls) >= 3
    /\ import_calls[Len(import_calls)].origin = Broadcast
    /\ Len(SubmittedBlocks) >= 3

\* The run is in the loop that waits for the queue to drain.
InWaitLoop ==
    \/ pc \in {"sleep", "read_best"}
    \/ /\ pc = "queue_limit"
       /\ QueueLimitReached(Head(reconstructed_blocks).number, best_block_number)

C9_State ==
    /\ \A n \in SubmittedNumbers : n < client_best + QUEUED_BLOCKS_LIMIT
    /\ pc = "read_best" => slept
    /\ pc \in {"sleep", "read_best"} => blocks_to_import = << >>

C9_Step ==
    InWaitLoop =>
        /\ InWaitLoop'
        /\ blocks_to_import' = << >>
        /\ \/ import_calls' = import_calls
           \/ /\ pc = "queue_limit"
              /\ blocks_to_import # << >>
              /\ import_calls' = Append(import_calls,
                    [origin |-> InitialSync, blocks |-> blocks_to_import])
        /\ best_block_number' # best_block_number => slept

\* C9: in a run where the client's best block number never moves, no block
\* numbered best + QUEUED_BLOCKS_LIMIT or above is submitted; once the limit
\* is reached the run never leaves the wait loop, hands over the pending
\* batch at most once (on entering, after which the batch stays empty) and
\* makes no other import_blocks call, and best is read only after a sleep.
C9_StalledClientWaitsForever == []C9_State /\ [][C9_Step]_vars

\* The batch was flushed, and the run has slept and is about to read best.
C9_Witness ==
    /\ pc = "read_best"
    /\ slept
    /\ import_calls # << >>
    /\ import_calls[Len(import_calls)].blocks # << >>
    /\ downloaded_blocks >= 1
    /\ QueueLimitReached(Head(reconstructed_blocks).number, client_best)

\* C10: every block pending or submitted is numbered below the client's
\* current best + QUEUED_BLOCKS_LIMIT: a block joins the batch only when it
\* is less than QUEUED_BLOCKS_LIMIT above the best number last read, which
\* the client's best number never falls below.
C10_WithinQueueLimit ==
    /\ pc \in BlockPhase =>
          /\ best_block_number <= client_best
          /\ \A n \in PendingNumbers : n < best_block_number + QUEUED_BLOCKS_LIMIT
    /\ \A n \in PendingNumbers \cup SubmittedNumbers :
          n < client_best + QUEUED_BLOCKS_LIMIT

\* A block at the very edge of the limit is pending after an earlier flush.
C10_Witness ==
    /\ pc \in BlockPhase
    /\ import_calls # << >>
    /\ \E n \in PendingNumbers : n = best_block_number + QUEUED_BLOCKS_LIMIT - 1
    /\ Len(blocks_to_import) >= 1

-----------------------------------------------------------------------------
\* The segment loop.

SetupPcs == {"download", "store", "new_reconstructor"}
FetchPcs == {"new_semaphore", "collect_futures", "retrieving", "reconstruct"}
SetupErrors == {ErrGetSegmentHeaders, ErrAddSegmentHeaders, ErrReconstructorNew}

\* The last archived block of every advertised segment is at or below the
\* client's best block.
AllImported ==
    \A s \in 0..(archived_segments - 1) :
        SegmentHeaderOf(layout, s).number <= client_best

\* C11: a run on a chain that already holds every block of the advertised
\* segments makes no import_blocks call, starts no piece fetch, counts no
\* block, raises neither a genesis mismatch nor a reconstruction error, and
\* returns Ok(0) unless one of its set-up calls (header download, header
\* store, Reconstructor::new) fails.
C11_NothingLeftToImport ==
    AllImported =>
        /\ import_calls = << >>
        /\ pc \in SetupPcs \cup {"next_segment", "returned"}
        /\ received_segment_pieces = NoFutures
        /\ pieces_received = 0
        /\ downloaded_blocks = 0
        /\ pc = "returned" => result \in {"Ok"} \cup SetupErrors

\* Two segments after segment 0 were passed over and the run returned Ok(0).
C11_Witness ==
    /\ AllImported
    /\ archived_segments >= 3
    /\ segment_index = archived_segments - 1
    /\ pc = "returned"
    /\ result = "Ok"
    /\ downloaded_blocks = 0

C12_State ==
    /\ pc \in FetchPcs \cup BlockPhase => segment_index >= 1
    /\ InFlight # {} => pc = "retrieving"
    /\ segment_index < segment_indices_iter \/ segment_indices_iter = 0

C12_Step ==
    segment_index' # segment_index =>
        /\ pc = "next_segment"
        /\ segment_index' = IF segment_index = 0 THEN 1 ELSE segment_index + 1
        /\ received_segment_pieces = NoFutures
        /\ reconstructed_blocks = << >>
        /\ blocks_to_import = << >>

\* C12: segments are taken one index after the other from index 1: segment
\* 0 is never fetched or reconstructed, a segment is started only when the
\* one before was skipped or is done with (no future of it is left, its
\* blocks are all iterated, its batch is handed over), and fetches are in
\* flight only for the segment being retrieved.
C12_SegmentsInOrder == []C12_State /\ [][C12_Step]_vars

\* Fetches of segment 2 are in flight after segment 1's blocks were submitted.
C12_Witness ==
    /\ pc = "retrieving"
    /\ segment_index = 2
    /\ InFlight # {}
    /\ import_calls # << >>

\* The last segment index the downloaded headers reach (0 when there is
\* none to process).
LastSegmentIndex ==
    IF segments_found >= 1 THEN segments_found - 1 ELSE 0

\* C13: a run that returns Ok has taken every segment index from 1 up to
\* that of the last downloaded header, skipping it or retrieving and
\* reconstructing it.
C13_OkAfterEverySegment ==
    (pc = "returned" /\ result = "Ok") =>
        /\ segment_index = LastSegmentIndex
        /\ segment_indices_iter >= segments_found \/ segments_found = 0

\* Segment s needs nothing from the network: its last archived block is at
\* or below the client's best block, or is the very next block, archived
\* only in part, with no segment after s.
SegmentIsImported(s) ==
    LET header == segment_headers[s + 1]
    IN  \/ header.number <= client_best
        \/ /\ header.number = client_best + 1
           /\ header.partial
           /\ s = segments_found - 1

C14_Step ==
    LET passed_over ==
            \/ /\ segment_index' # segment_index
               /\ pc' # "header_check"
            \/ /\ pc = "header_check"
               /\ pc' \in {"next_segment", "returned"}
    IN  /\ passed_over =>
              /\ SegmentIsImported(segment_index')
              /\ import_calls' = import_calls
              /\ received_segment_pieces' = NoFutures
              /\ semaphore' = semaphore
              /\ reconstructed_blocks' = << >>
              /\ \/ pc' = "next_segment" /\ reconstructor' = FreshReconstructor
                 \/ pc' = "returned" /\ result' = ErrReconstructorNew
        /\ (pc = "header_check" /\ pc' = "new_semaphore") =>
              /\ ~SegmentIsImported(segment_index)
              /\ reconstructor' = reconstructor
        /\ pc = "new_semaphore" => pc' = "collect_futures"
        /\ pc = "collect_futures" =>
              /\ pc' = "retrieving"
              /\ \A p \in SourcePositions :
                    received_segment_pieces'[p] = "fetching"

\* C14: a segment that needs nothing from the network when the loop decides
\* on it is passed over: no future is created for it, nothing is submitted,
\* and the reconstructor is replaced by a fresh one (or the run ends with
\* the error of Reconstructor::new); any other segment goes on, with the
\* reconstructor as it is, to the retrieval of its pieces.
C14_SkipIffImported == [][C14_Step]_vars

-----------------------------------------------------------------------------
\* Submission.

C15_State ==
    \A i \in 1..Len(import_calls) :
        /\ import_calls[i].origin \in {InitialSync, Broadcast}
        /\ import_calls[i].origin = Broadcast =>
              /\ i = Len(import_calls)
              /\ Len(import_calls[i].blocks) = 1
              /\ i >= 2
              /\ import_calls[i - 1].origin = InitialSync
              /\ \A k \in 1..Len(import_calls[i - 1].blocks) :
                    import_calls[i - 1].blocks[k].number
                        < import_calls[i].blocks[1].number
              /\ segment_indices_iter >= segments_found
              /\ pc \in {"next_segment", "returned"}

C15_Step ==
    /\ (pc = "segment_end" /\ blocks_to_import # << >>) =>
          import_calls' =
             IF segment_index = LastSegmentIndex
             THEN import_calls \o
                    << [origin |-> InitialSync,
                        blocks |-> SubSeq(blocks_to_import, 1,
                                          Len(blocks_to_import) - 1)],
                       [origin |-> Broadcast,
                        blocks |-> << blocks_to_import[Len(blocks_to_import)] >>] >>
             ELSE Append(import_calls,
                    [origin |-> InitialSync, blocks |-> blocks_to_import])
    /\ (pc # "segment_end" /\ import_calls' # import_calls) =>
          /\ Len(import_calls') = Len(import_calls) + 1
          /\ import_calls'[Len(import_calls')].origin = InitialSync

\* C15: at the end of the last segment the pending blocks but the final one
\* go out as one NetworkInitialSync batch and the final block follows alone
\* as a NetworkBroadcast batch; the batch of any other segment and every
\* flush before a wait are NetworkInitialSync.  So a run has at most one
\* NetworkBroadcast call, of one block, and it is its last call.
C15_BroadcastOnlyLastBlock == []C15_State /\ [][C15_Step]_vars

\* A broadcast of the last block after a batch of the same segment and
\* earlier calls.
C15_Witness ==
    /\ Len(import_calls) >= 3
    /\ import_calls[Len(import_calls)].origin = Broadcast
    /\ import_calls[Len(import_calls) - 1].blocks # << >>
    /\ pc = "returned"

-----------------------------------------------------------------------------
\* Set-up and result.

NoFetchNoImport ==
    /\ received_segment_pieces = NoFutures
    /\ pieces_received = 0
    /\ import_calls = << >>
    /\ downloaded_blocks = 0

\* C16: with no segment header on the network the run ends at the download:
\* the header store is not written, no piece is fetched, nothing is imported
\* and the result is Ok(0) (or the error of the download); with the header
\* of segment 0 alone no segment is taken, no piece is fetched, nothing is
\* imported and the result is Ok(0) (or the error of a set-up call).
C16_NoHeadersNoWork ==
    /\ archived_segments = 0 =>
          /\ headers_store = << >>
          /\ pc \in {"download", "returned"}
          /\ NoFetchNoImport
          /\ pc = "returned" => result \in {"Ok", ErrGetSegmentHeaders}
    /\ archived_segments = 1 =>
          /\ pc \in SetupPcs \cup {"next_segment", "returned"}
          /\ segment_index = 0
          /\ NoFetchNoImport
          /\ pc = "returned" => result \in {"Ok"} \cup SetupErrors

\* The download gave an empty list and the run returned Ok(0).
C16_Witness ==
    /\ archived_segments = 0
    /\ pc = "returned"
    /\ result = "Ok"
    /\ segment_headers = << >>
    /\ downloaded_blocks = 0

\* C17: whenever a piece future exists, and from the segment loop on, the
\* header store holds all the downloaded headers; a run that ends with the
\* error of the header store has created no piece future and made no
\* import_blocks call.
C17_HeadersStoredFirst ==
    /\ pc \in {"new_reconstructor", "next_segment"} \cup FetchPcs \cup BlockPhase =>
          /\ segment_headers # << >>
          /\ headers_store = segment_headers
    /\ received_segment_pieces # NoFutures => headers_store = segment_headers
    /\ result = ErrAddSegmentHeaders =>
          /\ headers_store = << >>
          /\ segment_index = 0
          /\ NoFetchNoImport

\* Fetches are in flight with the headers of three segments in the store.
C17_Witness ==
    /\ pc = "retrieving"
    /\ InFlight # {}
    /\ Len(headers_store) >= 3
    /\ headers_store = segment_headers

\* C18: the count the run keeps is the number of blocks submitted plus the
\* number pending, and a run that returns Ok(n) has nothing pending: n is
\* the number of blocks in all its import_blocks batches, each block being
\* in one batch only.
C18_CountIsSubmitted ==
    /\ downloaded_blocks = Len(SubmittedBlocks) + Len(blocks_to_import)
    /\ Cardinality(SubmittedNumbers) = Len(SubmittedBlocks)
    /\ (pc = "returned" /\ result = "Ok") =>
          /\ blocks_to_import = << >>
          /\ downloaded_blocks = Len(SubmittedBlocks)

\* Ok(n) after several batches, one of them a flush.
C18_Witness ==
    /\ pc = "returned"
    /\ result = "Ok"
    /\ downloaded_blocks >= 3
    /\ Len(import_calls) >= 3
    /\ \E i \in 1..Len(import_calls) : Len(import_calls[i].blocks) >= 2

-----------------------------------------------------------------------------
\* Blocks the client already has.

C19_Step ==
    \A k \in 1..Len(blocks_to_import') :
        (k > Len(blocks_to_import) /\ Len(blocks_to_import') > Len(blocks_to_import)) =>
            blocks_to_import'[k].number > best_block_number

\* C19: a block joins the batch only when its number is above the best
\* block number the run read last.
C19_NoBlockAtOrBelowBest == [][C19_Step]_vars

C20_Step ==
    (/\ pc = "next_block"
     /\ reconstructed_blocks # << >>
     /\ Head(reconstructed_blocks).number <= best_block_number
     /\ Head(reconstructed_blocks).bytes
            # client_blocks[Head(reconstructed_blocks).number]) =>
        /\ pc' = "returned"
        /\ result' = ErrWrongGenesis

\* C20: a reconstructed block at or below the best block number that is not,
\* byte for byte, the client's block of that number ends the run at once
\* with the chain mismatch error.
C20_MismatchIsFatal == [][C20_Step]_vars

-----------------------------------------------------------------------------
\* Failures.

RunErrors ==
    {ErrGetSegmentHeaders, ErrAddSegmentHeaders, ErrReconstructorNew,
     ErrAddSegment, ErrWrongGenesis, ErrClientLookup, ErrDecode}

\* C21: a failure of any step (header download, header store write,
\* reconstructor creation, reconstruction, genesis comparison, local block
\* lookup, block decoding) ends the run with Err: the run has returned, no
\* fetch is in flight, no step of the run is enabled any more (no fetch, no
\* import_blocks call, no retry of the step or of the segment), and what
\* the failed step would have produced is not there.
C21_FailureEndsRun ==
    /\ result \in {"running", "Ok", "Panic"} \cup RunErrors
    /\ result = "running" <=> pc # "returned"
    /\ result \in RunErrors =>
          /\ pc = "returned"
          /\ InFlight = {}
          /\ ~ENABLED Next
    /\ result = ErrGetSegmentHeaders =>
          segment_headers = << >> /\ headers_store = << >> /\ NoFetchNoImport
    /\ result = ErrAddSegmentHeaders =>
          headers_store = << >> /\ NoFetchNoImport
    /\ result = ErrAddSegment =>
          /\ pieces_received < NUM_RAW_RECORDS
          /\ reconstructed_blocks = << >>
    /\ result \in {ErrDecode, ErrClientLookup, ErrWrongGenesis} =>
          /\ reconstructed_blocks # << >>
          /\ Head(reconstructed_blocks).number
                \notin SubmittedNumbers \cup PendingNumbers

\* A block of a later batch does not decode: the run has returned the error
\* with an earlier batch submitted and the pending one dropped unsubmitted.
C21_Witness ==
    /\ pc = "returned"
    /\ result = ErrDecode
    /\ import_calls # << >>
    /\ blocks_to_import # << >>

-----------------------------------------------------------------------------
\* Source pieces first.

\* The parity fetches that have got a permit (get_piece called or returned).
StartedParity ==
    {p \in ParityPositions :
        received_segment_pieces[p]
            \in {"fetching", "returned_some", "returned_none"}}

\* C22: in the retrieval of a segment no source-piece future ever waits for
\* a permit (each got one when it was created), a parity-piece fetch is
\* started only with a permit that a returned fetch of the segment gave
\* back, and only a fetch that returned no piece gives one back: the parity
\* fetches started are never more than the fetches that returned None.
C22_ParityOnlyAfterFailure ==
    pc \in Retrieval =>
        /\ \A p \in SourcePositions :
              received_segment_pieces[p]
                  \in {"fetching", "returned_some", "returned_none"}
        /\ Cardinality(StartedParity) <= Cardinality(ReturnedNone)
        /\ Cardinality(StartedParity) + semaphore = Cardinality(ReturnedNone)

\* One source fetch has failed: one parity fetch is in flight on its permit
\* and the other parity futures still wait.
C22_Witness ==
    /\ pc = "retrieving"
    /\ Cardinality(ReturnedNone) = 1
    /\ ReturnedNone \subseteq SourcePositions
    /\ Cardinality(StartedParity) = 1
    /\ StartedParity \subseteq InFlight
    /\ Waiting(received_segment_pieces) # {}

-----------------------------------------------------------------------------
\* One request per piece.

\* The get_piece calls made so far in the retrieval at hand.
C23_CallsMade ==
    LET upto[p \in 0..NUM_PIECES] ==
            IF p = 0 THEN 0 ELSE upto[p - 1] + get_piece_calls[p - 1]
    IN  upto[NUM_PIECES]

C23_State ==
    /\ \A p \in PiecePositions :
          /\ get_piece_calls[p] <= 1
          /\ pc \in Retrieval =>
                (get_piece_calls[p] = 1 <=>
                    received_segment_pieces[p]
                        \in {"fetching", "returned_some", "returned_none"})
    /\ C23_CallsMade <= NUM_PIECES

C23_Step ==
    /\ \A p \in PiecePositions :
          \* a fetch that has returned is not started again
          received_segment_pieces[p] \in {"returned_some", "returned_none"} =>
              received_segment_pieces'[p]
                  \in {received_segment_pieces[p], "absent"}
    \* the futures of a segment are created once, for a segment index the
    \* iterator has not yielded before
    /\ (pc' = "new_semaphore" /\ pc # "new_semaphore") =>
          pc = "header_check"
    /\ (pc' = "header_check" /\ pc # "header_check") =>
          segment_index' > segment_index
    /\ (pc' = "collect_futures" /\ pc # "collect_futures") =>
          pc = "new_semaphore"
    /\ (pc' = "retrieving" /\ pc # "retrieving") => pc = "collect_futures"

\* C23: within the retrieval of one segment get_piece is called at most
\* once for every piece position (a fetch that returned is never started
\* again), so at most NUM_PIECES calls are made, and the retrieval of a
\* segment is entered once, for a segment index above every earlier one.
C23_EachPieceRequestedOnce == []C23_State /\ [][C23_Step]_vars

\* Every fetch of a segment has been made once and has returned: NUM_PIECES
\* requests, some of them misses.
C23_Witness ==
    /\ pc = "reconstruct"
    /\ C23_CallsMade = NUM_PIECES
    /\ ReturnedNone # {}
    /\ AllFetchesReturned

-----------------------------------------------------------------------------
\* The peer index.

NoCallInProgress == \A clone \in Clones : updating[clone] = NoUpdate
TrackedPeers == Tracked(peers)

\* The step in which the update_cuckoo_filter of clone returns, and the one
\* in which a call of the named function returns.
UpdateReturns(clone) ==
    updating[clone] # NoUpdate /\ updating'[clone] = NoUpdate
Returns(op) == last_call'.turn # last_call.turn /\ last_call'.op = op

\* C24: whenever no call is in progress the index tracks at most
\* CONNECTED_PEERS_NUMBER_LIMIT peers, whatever updates and removes were
\* made; inside an update it tracks at most one more.
C24_AtMostLimitPeers ==
    /\ NoCallInProgress =>
          Cardinality(TrackedPeers) <= CONNECTED_PEERS_NUMBER_LIMIT
    /\ Cardinality(TrackedPeers) <= CONNECTED_PEERS_NUMBER_LIMIT + 1

\* An update that went over the limit has returned, and the index is back
\* at the limit.
C24_Witness ==
    /\ NoCallInProgress
    /\ last_call.op = "update_cuckoo_filter"
    /\ last_call.value # None
    /\ Cardinality(TrackedPeers) = CONNECTED_PEERS_NUMBER_LIMIT

C25_Step ==
    \A clone \in Clones :
        /\ (/\ updating[clone] = NoUpdate
            /\ updating'[clone] # NoUpdate
            /\ Cardinality(TrackedPeers) = CONNECTED_PEERS_NUMBER_LIMIT
            /\ updating'[clone].peer_id \notin TrackedPeers) =>
                Tracked(peers') = TrackedPeers \cup {updating'[clone].peer_id}
        /\ (/\ UpdateReturns(clone)
            /\ Cardinality(TrackedPeers) = CONNECTED_PEERS_NUMBER_LIMIT + 1) =>
                /\ Tracked(peers') \subseteq TrackedPeers
                /\ Cardinality(TrackedPeers \ Tracked(peers')) = 1
                /\ Cardinality(Tracked(peers')) = CONNECTED_PEERS_NUMBER_LIMIT
                /\ \A peer_id \in Tracked(peers') :
                      peers'[peer_id] = peers[peer_id]

\* C25: an update for an untracked peer on an index that tracks exactly
\* CONNECTED_PEERS_NUMBER_LIMIT peers adds the peer and then evicts exactly
\* one peer, leaving exactly CONNECTED_PEERS_NUMBER_LIMIT tracked.
C25_OneEvictedAtLimit == [][C25_Step]_vars

\* Such an update has returned: it evicted a peer other than its own, which
\* is tracked with the new filter.
C25_Witness ==
    /\ NoCallInProgress
    /\ last_call.op = "update_cuckoo_filter"
    /\ last_call.value \in PeerIds \ {last_call.peer_id}
    /\ last_call.value \notin TrackedPeers
    /\ peers[last_call.peer_id] = CuckooFilterFrom(last_call.arg)
    /\ Cardinality(TrackedPeers) = CONNECTED_PEERS_NUMBER_LIMIT

\* C26: two indexes driven from empty by the same updates and removes
\* evict the same peers, so they track the same peers after every call.
C26_SameEvictions == TrackedPeers = Tracked(twin_peers)

\* C27: when update_cuckoo_filter(p, f) has returned, p is tracked with the
\* filter rebuilt from f, whether or not the update evicted a peer.
C27_UpdatedPeerTracked ==
    (NoCallInProgress /\ last_call.op = "update_cuckoo_filter") =>
        peers[last_call.peer_id] = CuckooFilterFrom(last_call.arg)

C28_Step ==
    Returns("remove_peer_filter") =>
        LET peer_id == last_call'.peer_id
        IN  /\ last_call'.value = (peer_id \in TrackedPeers)
            /\ peer_id \notin Tracked(peers')
            /\ \A other \in PeerIds \ {peer_id} : peers'[other] = peers[other]
            /\ (last_call.op = "remove_peer_filter"
                    /\ last_call.peer_id = peer_id) =>
                  /\ last_call'.value = FALSE
                  /\ peers' = peers

\* C28: remove_peer_filter(p) returns true exactly when p was tracked at
\* the call; after it p is not tracked and every other entry is as before;
\* a second remove_peer_filter(p) right after it returns false and changes
\* nothing.
C28_RemoveReportsPresence == [][C28_Step]_vars

\* A tracked peer has been removed, others staying tracked.
C28_Witness ==
    /\ last_call.op = "remove_peer_filter"
    /\ last_call.value = TRUE
    /\ last_call.peer_id \notin TrackedPeers
    /\ TrackedPeers # {}

C29_Step ==
    Returns("peers_contain_piece") =>
        LET returned == last_call'.value
            reporting ==
                {peer_id \in TrackedPeers :
                    Contains(peers[peer_id], last_call'.arg)}
        IN  /\ {returned[k] : k \in 1..Len(returned)} = reporting
            /\ Len(returned) = Cardinality(reporting)
            /\ peers' = peers

\* C29: peers_contain_piece(i) returns, each once, exactly the peers
\* tracked at the call whose filter reports i (so no removed or evicted
\* peer), and leaves the index as it was.
C29_ExactlyReportingPeers == [][C29_Step]_vars

\* A scan has returned one of two tracked peers: the other's filter does
\* not report the piece.
C29_Witness ==
    /\ NoCallInProgress
    /\ last_call.op = "peers_contain_piece"
    /\ last_call.arg = 1
    /\ Len(last_call.value) = 1
    /\ Cardinality(TrackedPeers) = 2

C30_State ==
    /\ \A clone \in Clones : updating[clone] # NoUpdate => lock = clone
    /\ lock # NoClone => updating[lock] # NoUpdate
    /\ Cardinality(TrackedPeers) > CONNECTED_PEERS_NUMBER_LIMIT =>
          lock # NoClone
    /\ last_call.op = "peers_contain_piece" =>
          Len(last_call.value) <= CONNECTED_PEERS_NUMBER_LIMIT

C30_Step ==
    /\ lock # NoClone =>
          /\ lock' = NoClone
          /\ Returns("update_cuckoo_filter")
          /\ peers' = UpdateCuckooFilter(peers, hash_order,
                                         updating[lock].peer_id,
                                         updating[lock].cuckoo_filter_dto)
    /\ Returns("remove_peer_filter") =>
          peers' = RemovePeerFilter(peers, last_call'.peer_id)
    /\ Returns("peers_contain_piece") =>
          last_call'.value =
              PeersContainPiece(peers, hash_order, last_call'.arg)

\* C30: the calls of the clones take effect one at a time under the map's
\* lock: from the insert of an update to its return no other call reads or
\* writes the map, so the map is over the limit only while the lock is
\* held, no scan returns more than CONNECTED_PEERS_NUMBER_LIMIT peers, and
\* every call leaves the map as the same call made on its own would.
C30_CallsAreAtomic == []C30_State /\ [][C30_Step]_vars

\* One clone is inside an update that has put the map over the limit, after
\* a scan by a clone saw the map at the limit.
C30_Witness ==
    /\ lock # NoClone
    /\ Cardinality(TrackedPeers) = CONNECTED_PEERS_NUMBER_LIMIT + 1
    /\ last_call.op = "peers_contain_piece"
    /\ Len(last_call.value) = CONNECTED_PEERS_NUMBER_LIMIT

-----------------------------------------------------------------------------
\* Termination of the collection of pieces.

C31_State ==
    (pc = "retrieving" /\ Waiting(received_segment_pieces) # {}) =>
        InFlight # {}

C31_Collected ==
    /\ pc = "reconstruct"
    /\ \/ pieces_received >= NUM_RAW_RECORDS
       \/ AllFetchesReturned

\* C31: when every get_piece call returns, the collection of a segment's
\* pieces ends, with NUM_RAW_RECORDS pieces or with every one of the
\* NUM_PIECES fetches returned; while it lasts a future that waits for a
\* permit has a fetch in flight before it, so that no future waits forever
\* in a collection that goes on.
C31_CollectionTerminates ==
    /\ []C31_State
    /\ (pc = "retrieving") ~> C31_Collected

\* The collection is one piece short, a fetch has failed, and a parity
\* future still waits behind the fetches in flight.
C31_Witness ==
    /\ pc = "retrieving"
    /\ pieces_received = NUM_RAW_RECORDS - 1
    /\ ReturnedNone # {}
    /\ InFlight # {}
    /\ Waiting(received_segment_pieces) # {}

-----------------------------------------------------------------------------
\* Termination of the run.

\* C32: when every piece fetch returns and the import queue imports the
\* submitted blocks in order, the run returns Ok or Err; it has then left
\* every loop, the one that waits for the queue to drain among them.
C32_RunTerminates == <>(pc = "returned" /\ result \in {"Ok"} \cup RunErrors)

-----------------------------------------------------------------------------
\* The size of the pending batch.

C33_State ==
    /\ Len(blocks_to_import) < QUEUED_BLOCKS_LIMIT
    /\ pc \in {"best_number", "sleep", "read_best"} =>
          blocks_to_import = << >>

C33_Step ==
    /\ (pc = "queue_limit" /\ pc' = "sleep") => blocks_to_import' = << >>
    /\ pc' = "best_number" => blocks_to_import' = << >>
    /\ best_block_number' # best_block_number => blocks_to_import = << >>

\* C33: with block numbers that follow one another and a best block number
\* that never decreases, the pending batch holds fewer than
\* QUEUED_BLOCKS_LIMIT blocks at every point, every flush before a wait
\* leaves it empty, it is empty when the blocks of a segment are begun, and
\* best_block_number is read again only while it is empty.
C33_BatchBelowLimit == []C33_State /\ [][C33_Step]_vars

-----------------------------------------------------------------------------
\* Empty submissions.

\* C34: no import_blocks call is made with an empty batch: not by a flush
\* before a wait, not at the end of a segment, and not for the blocks ahead
\* of the final one in the last segment when a single block is pending.
C34_NoEmptyBatch ==
    \A i \in 1..Len(import_calls) : import_calls[i].blocks # << >>

-----------------------------------------------------------------------------
\* The join with the live sync.

\* C35: a run that returns Ok(n) with n > 0 has made a NetworkBroadcast call
\* as its last import_blocks call, and the block of that call is the
\* highest-numbered block the run has submitted.
C35_OkEndsWithBroadcast ==
    (pc = "returned" /\ result = "Ok" /\ downloaded_blocks > 0) =>
        /\ import_calls # << >>
        /\ LET last == import_calls[Len(import_calls)]
           IN  /\ last.origin = Broadcast
               /\ last.blocks # << >>
               /\ \A n \in SubmittedNumbers :
                     n <= last.blocks[Len(last.blocks)].number

-----------------------------------------------------------------------------
\* What an update leaves alone.

C36_Step ==
    \A clone \in Clones :
        /\ (updating[clone] = NoUpdate /\ updating'[clone] # NoUpdate) =>
              LET peer_id == updating'[clone].peer_id
              IN  /\ Tracked(peers') = TrackedPeers \cup {peer_id}
                  /\ \A other \in PeerIds \ {peer_id} :
                        peers'[other] = peers[other]
                  /\ (\/ peer_id \in TrackedPeers
                      \/ Cardinality(TrackedPeers)
                            < CONNECTED_PEERS_NUMBER_LIMIT) =>
                        Cardinality(Tracked(peers'))
                            <= CONNECTED_PEERS_NUMBER_LIMIT
        /\ (updating[clone] # NoUpdate /\ updating'[clone] # NoUpdate) =>
              peers' = peers
        /\ UpdateReturns(clone) =>
              /\ Tracked(peers') \subseteq TrackedPeers
              /\ Cardinality(TrackedPeers \ Tracked(peers')) <= 1
              /\ \A peer_id \in Tracked(peers') :
                    peers'[peer_id] = peers[peer_id]
              /\ Cardinality(TrackedPeers) <= CONNECTED_PEERS_NUMBER_LIMIT =>
                    peers' = peers

\* C36: an update_cuckoo_filter call evicts at most one peer, and none
\* unless more than CONNECTED_PEERS_NUMBER_LIMIT peers are tracked once its
\* entry is written: the update of a tracked peer, and an update made with
\* fewer than CONNECTED_PEERS_NUMBER_LIMIT peers tracked, change the entry
\* of the updated peer and nothing else.
C36_EvictsOnlyOverLimit == [][C36_Step]_vars

\* An update with the larger filter has returned without an eviction and
\* left an index that tracks CONNECTED_PEERS_NUMBER_LIMIT peers.
C36_Witness ==
    /\ NoCallInProgress
    /\ last_call.op = "update_cuckoo_filter"
    /\ last_call.value = None
    /\ Cardinality(TrackedPeers) = CONNECTED_PEERS_NUMBER_LIMIT
    /\ peers[last_call.peer_id] = CuckooFilterFrom(last_call.arg)
    /\ last_call.arg.length = 2

-----------------------------------------------------------------------------
\* The overseer's handling of an event.

C37_State == overseer_result # "Err"

\* The event of a block whose hash is in active_leaves.
C37_NoOp ==
    /\ active_leaves' = active_leaves
    /\ process_calls' = process_calls

\* The event of a block whose hash is not in active_leaves.
C37_Inserted(block) ==
    /\ active_leaves'[block.hash] = block.number
    /\ block.parent_hash \in Hashes =>
          active_leaves'[block.parent_hash] = None
    /\ \A other \in Hashes \ {block.hash, block.parent_hash} :
          active_leaves'[other] = active_leaves[other]

C37_ProcessedOnce(block) ==
    /\ process_calls' =
          Append(process_calls, [hash |-> block.hash, number |-> block.number])
    /\ overseer_pc' \in {"run", "event_processor"}

\* The return from the wait for the processor, whatever the outcome.
C37_LoopGoesOn ==
    (overseer_pc = "event_processor" /\ overseer_pc' # overseer_pc) =>
        /\ overseer_pc' = "run"
        /\ active_leaves' = active_leaves
        /\ process_calls' = process_calls

\* The number active_leaves holds for the block, or for its parent when the
\* block is not in it, is not the one the block's own number asks for.
C37_NumberMismatch(block) ==
    IF active_leaves[block.hash] # None
    THEN active_leaves[block.hash] # block.number
    ELSE /\ block.parent_hash \in Hashes
         /\ active_leaves[block.parent_hash] # None
         /\ active_leaves[block.parent_hash] #
               (IF block.number = 0 THEN 0 ELSE block.number - 1)

C37_Step ==
    /\ handled' # handled =>
          LET block == handled'[Len(handled')]
          IN  IF active_leaves[block.hash] # None
              THEN C37_NoOp
              ELSE C37_Inserted(block) /\ C37_ProcessedOnce(block)
    /\ C37_LoopGoesOn

C37_StepUnlessPanic ==
    /\ handled' # handled =>
          LET block == handled'[Len(handled')]
          IN  IF overseer_result' = "Panic"
              THEN /\ C37_NumberMismatch(block)
                   /\ process_calls' = process_calls
                   /\ IF active_leaves[block.hash] # None
                      THEN active_leaves' = active_leaves
                      ELSE C37_Inserted(block)
                   /\ events_rx' = << >>
              ELSE IF active_leaves[block.hash] # None
              THEN C37_NoOp /\ overseer_pc' = "run"
              ELSE C37_Inserted(block) /\ C37_ProcessedOnce(block)
    /\ overseer_result' # overseer_result =>
          \/ overseer_result' = "Panic" /\ handled' # handled
          \/ overseer_result' = "Ok"
    /\ C37_LoopGoesOn

-----------------------------------------------------------------------------
\* The order in which the overseer works.

C38_State ==
    /\ (leaves # << >> \/ overseer_pc = "leaf_processor") => handled = << >>
    /\ Len(handled) <= Len(sent)
    /\ handled = SubSeq(sent, 1, Len(handled))
    /\ overseer_result # "Panic" => handled \o events_rx = sent
    /\ (leaves = << >> /\ handled = << >>) =>
          \A i \in 1..Len(process_calls) :
              active_leaves[process_calls[i].hash] = process_calls[i].number
    /\ (overseer_pc = "returned" /\ overseer_result # "Panic") =>
          /\ handles = 0
          /\ events_rx = << >>
          /\ handled = sent
          /\ leaves = << >>

C38_Step ==
    /\ handled' = << >> => process_calls' \o leaves' = process_calls \o leaves
    /\ leaves' # leaves =>
          /\ overseer_pc = "run"
          /\ leaves' = Tail(leaves)
          /\ process_calls' = Append(process_calls, Head(leaves))
          /\ active_leaves'[Head(leaves).hash] = Head(leaves).number
    /\ handled' # handled =>
          /\ overseer_pc = "run"
          /\ handled' = Append(handled, Head(events_rx))
          /\ overseer_result' # "Panic" => events_rx' = Tail(events_rx)

=============================================================================
